---- MODULE Spec2Model ----
(***************************************************************************)
(* Glyphar adaptive recognition pipeline (YuriArduino/Noosphera_0.3).      *)
(*                                                                         *)
(* Three state machines share this module:                                 *)
(*   SpecRun    - the page execution strategies: run_sequential,           *)
(*                run_parallel (core/runner.py) and                        *)
(*                ParallelProcessor.process_parallel                       *)
(*                (core/parallel_processor.py);                            *)
(*   SpecPage   - PageProcessor.process (core/page_processor.py);          *)
(*   SpecEngine - TesseractManagedEngine.recognize                         *)
(*                (engines/managed/tesseract_managed.py).                  *)
(* Each specification moves its own variables and leaves the others at     *)
(* their idle values.  Confidences are percentages kept as integers.       *)
(***************************************************************************)
EXTENDS Integers, Sequences, FiniteSets, TLC

(***************************************************************************)
(* Bounds of the model.                                                    *)
(***************************************************************************)
MaxPages == 4

BatchSizes == {1, 2}

WorkerCounts == {1, 2}

(***************************************************************************)
(* Python values.                                                          *)
(***************************************************************************)
\* Exception classes a page task can raise; all derive from Exception.
ValueErrorT == "ValueError"

RuntimeErrorT == "RuntimeError"

TypeErrorT == "TypeError"

KeyErrorT == "KeyError"

\* An Exception subclass that no handler of the pipeline names, such as
\* pytesseract.TesseractNotFoundError (an OSError).
OSErrorT == "OSError"

\* cv2.error, raised by OpenCV calls; derives from Exception.
Cv2ErrorT == "cv2.error"

Min(a, b) == IF a < b THEN a ELSE b

VARIABLES
    \* ---- execution strategies ----
    strategy,         \* "sequential" | "parallel" | "process"
    pages_images,     \* the input pages: page i behaves as pages_images[i]
    batch_size,       \* run_parallel's batch_size
    max_workers,      \* pool size
    run_pc,           \* position of the coordinator
    task,             \* task[i]: state of page i's future
    batch_start,      \* run_parallel's loop variable
    batch_results,    \* run_parallel's per-batch list
    results,          \* the list of results before the final sort
    results_by_page,  \* process_parallel's dict, keyed by 0-based page_idx
    returned_pages,   \* the page list handed to the caller
    summary,          \* process_parallel's counters in its return dict
    \* ---- PageProcessor.process ----
    pg_pc,            \* position inside process
    page_number,      \* the page_number argument
    quality_metrics,  \* what quality_assessor.assess returned
    regions,          \* layout.get("regions", [])
    layout_type,      \* layout["layout_type"]
    region_log,       \* per region: how _process_region ended
    columns,          \* the columns list
    confidences,      \* the confidences list
    page_result,      \* the PageResult returned
    pg_exc,           \* the exception that left process
    \* ---- TesseractManagedEngine ----
    cache,            \* self.cache, on the keys the model follows
    cache_other,      \* number of self.cache entries under other keys
    stats,            \* self.stats: total_pages, cache_hits, cache_misses
    words_file,       \* self.user_files.words_file
    core_calls,       \* number of calls of self.core.recognize so far
    call_log,         \* the recognize calls made so far, in order
    \* ---- ConfigStrategy.decide ----
    dec_input,        \* the (layout_type, quality) of the repeated calls
    dec_log,          \* the decide calls made so far and their results
    \* ---- ColumnLayoutDetector ----
    gray_cache,       \* self._gray_cache: image hash -> shape of the gray array
    lay_log,          \* the detect calls made so far and their results
    \* ---- quality assessor ----
    qa_log,           \* calls of QualityAssessor.assess, with their results
    \* ---- fallback ladder ----
    lad_primary,      \* what the core call of recognize does
    lad_attempts,     \* what each fallback attempt does
    lad_pc,           \* "recognize", "ladder", "returned" or "raised"
    lad_k,            \* index of the next fallback attempt
    lad_tried,        \* (psm, oem) pairs tried so far, in order
    lad_last_exception,\* last_exception of apply_fallback_strategy
    lad_result,       \* the dict returned
    lad_raised,       \* the exception that left recognize
    \* ---- detect on a shared detector ----
    det_image,        \* the image each pool thread passes to detect
    det_pc,           \* the statement of detect each thread is at
    det_gray,         \* gray (its shape) in each thread
    det_out,          \* what detect returned to each thread
    det_gray_cache,   \* self._gray_cache of the shared detector
    det_binary_cache, \* self._binary_cache of the shared detector
    \* ---- recognize on a shared engine ----
    rt_input,         \* the arguments each pool thread passes to recognize
    rt_pc,            \* the statement of recognize each thread is at
    rt_result,        \* result in each thread
    \* ---- user files managers ----
    uf_words_file,    \* words_file of each UserFilesManager
    uf_on_disk,       \* the paths that exist on disk
    uf_log,           \* the prepare and cleanup calls made
    \* ---- Thoth decision policy ----
    th_attempt,       \* attempt_number of the decision context
    th_metrics,       \* quality_metrics of the decision context
    th_decisions,     \* the decisions evaluate has returned
    th_pc             \* "evaluate", "reprocess" or "done"

runVars == <<strategy, pages_images, batch_size, max_workers, run_pc, task,
             batch_start, batch_results, results, results_by_page,
             returned_pages, summary>>

pageVars == <<pg_pc, page_number, quality_metrics, regions, layout_type,
              region_log, columns, confidences, page_result, pg_exc>>

engineVars == <<cache, cache_other, stats, words_file, core_calls, call_log>>

decideVars == <<dec_input, dec_log>>

layoutVars == <<gray_cache, lay_log>>

qualityVars == <<qa_log>>

ladderVars == <<lad_primary, lad_attempts, lad_pc, lad_k, lad_tried, lad_last_exception, lad_result, lad_raised>>

threadsVars == <<det_image, det_pc, det_gray, det_out, det_gray_cache, det_binary_cache>>

recThreadsVars == <<rt_input, rt_pc, rt_result>>

userFilesVars == <<uf_words_file, uf_on_disk, uf_log>>

thothVars == <<th_attempt, th_metrics, th_decisions, th_pc>>

vars == <<runVars, pageVars, engineVars, decideVars, layoutVars, qualityVars, ladderVars, threadsVars, recThreadsVars, userFilesVars, thothVars>>

otherThanRun == <<pageVars, engineVars, decideVars, layoutVars, qualityVars, ladderVars, threadsVars, recThreadsVars, userFilesVars, thothVars>>

otherThanPage == <<runVars, engineVars, decideVars, layoutVars, qualityVars, ladderVars, threadsVars, recThreadsVars, userFilesVars, thothVars>>

otherThanEngine == <<runVars, pageVars, decideVars, layoutVars, qualityVars, ladderVars, threadsVars, recThreadsVars, userFilesVars, thothVars>>

otherThanDecide == <<runVars, pageVars, engineVars, layoutVars, qualityVars, ladderVars, threadsVars, recThreadsVars, userFilesVars, thothVars>>

otherThanLayout == <<runVars, pageVars, engineVars, decideVars, qualityVars, ladderVars, threadsVars, recThreadsVars, userFilesVars, thothVars>>

otherThanQuality == <<runVars, pageVars, engineVars, decideVars, layoutVars, ladderVars, threadsVars, recThreadsVars, userFilesVars, thothVars>>

otherThanLadder == <<runVars, pageVars, engineVars, decideVars, layoutVars, qualityVars, threadsVars, recThreadsVars, userFilesVars, thothVars>>

otherThanThreads == <<runVars, pageVars, engineVars, decideVars, layoutVars, qualityVars, ladderVars, recThreadsVars, userFilesVars, thothVars>>

otherThanRecThreads == <<runVars, pageVars, engineVars, decideVars, layoutVars, qualityVars, ladderVars, threadsVars, userFilesVars, thothVars>>

otherThanUserFiles == <<runVars, pageVars, engineVars, decideVars, layoutVars, qualityVars, ladderVars, threadsVars, recThreadsVars, thothVars>>

otherThanThoth == <<runVars, pageVars, engineVars, decideVars, layoutVars, qualityVars, ladderVars, threadsVars, recThreadsVars, userFilesVars>>

(***************************************************************************)
(* Idle values: a specification leaves the other machines' variables here. *)
(***************************************************************************)
NoSummary == [total_pages |-> 0, processed_pages |-> 0, failed_pages |-> 0]

NoQuality == [sharpness |-> 0, contrast |-> 0]

NoPageResult ==
    [page_number |-> 0, layout_type |-> "none", columns |-> << >>,
     page_quality |-> "none", page_confidence_mean |-> [num |-> 0, den |-> 1],
     warnings |-> << >>]

IdleRun ==
    /\ strategy = "none"
    /\ pages_images = << >>
    /\ batch_size = 0
    /\ max_workers = 0
    /\ run_pc = "idle"
    /\ task = << >>
    /\ batch_start = 0
    /\ batch_results = << >>
    /\ results = << >>
    /\ results_by_page = << >>
    /\ returned_pages = << >>
    /\ summary = NoSummary

IdlePage ==
    /\ pg_pc = "idle"
    /\ page_number = 0
    /\ quality_metrics = NoQuality
    /\ regions = << >>
    /\ layout_type = "none"
    /\ region_log = << >>
    /\ columns = << >>
    /\ confidences = << >>
    /\ page_result = NoPageResult
    /\ pg_exc = "none"

\* OCRStats.__init__ (the counters recognize moves).
NewStats == [total_pages |-> 0, cache_hits |-> 0, cache_misses |-> 0]

\* self.cache = {}
EmptyCache == << >>

\* The engine as __init__ leaves it.
IdleEngine ==
    /\ cache = EmptyCache
    /\ cache_other = 0
    /\ stats = NewStats
    /\ words_file = "none"
    /\ core_calls = 0
    /\ call_log = << >>

\* No decide call made.
IdleDecide ==
    /\ dec_input = "none"
    /\ dec_log = << >>

\* ColumnLayoutDetector.__init__: empty caches, no call made.
IdleLayout ==
    /\ gray_cache = << >>
    /\ lay_log = << >>

IdleQuality == qa_log = << >>

IdleLadder ==
    /\ lad_primary = "none"
    /\ lad_attempts = << >>
    /\ lad_pc = "idle"
    /\ lad_k = 0
    /\ lad_tried = << >>
    /\ lad_last_exception = "None"
    /\ lad_result = [text |-> "none", confidence |-> 0, psm |-> 0, oem |-> 0,
                     config_used |-> "none", fallback_error |-> "none"]
    /\ lad_raised = "none"

IdleThreads ==
    /\ det_image = << >>
    /\ det_pc = << >>
    /\ det_gray = << >>
    /\ det_out = << >>
    /\ det_gray_cache = << >>
    /\ det_binary_cache = << >>

IdleRecThreads ==
    /\ rt_input = << >>
    /\ rt_pc = << >>
    /\ rt_result = << >>

IdleUserFiles ==
    /\ uf_words_file = << >>
    /\ uf_on_disk = {}
    /\ uf_log = << >>

IdleThoth ==
    /\ th_attempt = 0
    /\ th_metrics = [avg_confidence |-> 0, poor_pages_count |-> 0]
    /\ th_decisions = << >>
    /\ th_pc = "idle"

(***************************************************************************)
(* Page results.                                                           *)
(***************************************************************************)
\* What page_processor.process(img, i) returns when it succeeds: a
\* PageResult carrying the page number it was given.
ProcessedPage(i) ==
    [page_number |-> i,
     layout_type |-> "single",
     columns |-> << [col_index |-> 1, text |-> "text", confidence |-> 90] >>,
     page_confidence_mean |-> 90,
     warnings |-> << >>]

\* create_fallback_page of glyphar/core/fallback.py under Apps/, the one
\* runner.py imports (from .fallback import create_fallback_page).
create_fallback_page(number) ==
    [page_number |-> number,
     layout_type |-> "unknown",
     columns |-> << >>,
     page_confidence_mean |-> 0,
     warnings |-> << "processing_failed" >>]

\* create_fallback_page of the copy under tools/: one error column.
create_fallback_page_tools(number) ==
    [page_number |-> number,
     layout_type |-> "unknown",
     columns |-> << [col_index |-> 1,
                     text |-> "[ERROR: Page processing failed]",
                     confidence |-> 0] >>,
     page_confidence_mean |-> 0,
     warnings |-> << "Page processing failed - fallback result generated" >>]

\* "result": None in a worker's failure dict.
NonePage ==
    [page_number |-> 0,
     layout_type |-> "none",
     columns |-> << >>,
     page_confidence_mean |-> 0,
     warnings |-> << >>]

(***************************************************************************)
(* Inputs of the execution strategies.                                     *)
(***************************************************************************)
Strategies == {"sequential", "parallel", "process"}

\* How page_processor.process behaves on one page: it returns ("ok"), or
\* raises ValueError or another Exception subclass (RuntimeError).  In a
\* worker process it may also return only after more than the 120 s the
\* coordinator passes to future.result ("slow"), never return ("hang"), or
\* its result may fail with a ValueError while it is handed back to the
\* coordinator ("ResultValueError").
ThreadBehaviours == {"ok", ValueErrorT, RuntimeErrorT}

ProcessBehaviours ==
    {"ok", ValueErrorT, RuntimeErrorT, "ResultValueError", "slow", "hang"}

Behaviours(strat) ==
    IF strat = "process" THEN ProcessBehaviours ELSE ThreadBehaviours

NumPages == Len(pages_images)

PageNumbers == 1..NumPages

Succeeds(i) == pages_images[i] \in {"ok", "slow"}

(***************************************************************************)
(* except clauses.                                                         *)
(***************************************************************************)
\* runner.py: "except Exception" in run_sequential and run_parallel.
RunnerCatchesOnlyValueError(exc) == exc = ValueErrorT

RunnerCatches(exc) == exc \in {ValueErrorT, RuntimeErrorT}

\* parallel_processor.py: "except ValueError" in _process_page_worker.
WorkerCatches(exc) == exc = ValueErrorT

\* parallel_processor.py: "except ValueError" around future.result.
CollectorCatches(exc) == exc = ValueErrorT

(***************************************************************************)
(* results.sort(key=lambda p: p.page_number): a stable sort.               *)
(***************************************************************************)
RECURSIVE InsertByPageNumber(_, _)
InsertByPageNumber(sorted, p) ==
    IF Len(sorted) = 0
    THEN << p >>
    ELSE IF sorted[Len(sorted)].page_number <= p.page_number
         THEN Append(sorted, p)
         ELSE Append(InsertByPageNumber(SubSeq(sorted, 1, Len(sorted) - 1), p),
                     sorted[Len(sorted)])

RECURSIVE StableSort(_)
StableSort(s) ==
    IF Len(s) = 0
    THEN << >>
    ELSE InsertByPageNumber(StableSort(SubSeq(s, 1, Len(s) - 1)), s[Len(s)])

NoSort(s) == s

SortByPageNumber(s) == StableSort(s)

(***************************************************************************)
(* Initial state of one call of a strategy.                                *)
(***************************************************************************)
InitRunVars ==
    /\ strategy \in Strategies
    /\ \E n \in 0..MaxPages : pages_images \in [1..n -> Behaviours(strategy)]
    /\ batch_size \in (IF strategy = "parallel" THEN BatchSizes ELSE {0})
    /\ max_workers \in (IF strategy = "sequential" THEN {0} ELSE WorkerCounts)
    /\ run_pc = (IF strategy = "process" THEN "submit" ELSE "loop")
    /\ task = [i \in PageNumbers |-> "new"]
    /\ batch_start = 0
    /\ batch_results = << >>
    /\ results = << >>
    /\ results_by_page = << >>
    /\ returned_pages = << >>
    /\ summary = NoSummary

(***************************************************************************)
(* run_sequential                                                          *)
(***************************************************************************)
\* One iteration of "for i, img in enumerate(pages_images, 1)".
SeqProcessPage ==
    /\ strategy = "sequential"
    /\ run_pc = "loop"
    /\ Len(results) < NumPages
    /\ LET i == Len(results) + 1
           b == pages_images[i]
       IN  /\ task' = [task EXCEPT ![i] = "collected"]
           /\ IF b = "ok"
              THEN /\ results' = Append(results, ProcessedPage(i))
                   /\ UNCHANGED run_pc
              ELSE IF RunnerCatches(b)
                   THEN /\ results' = Append(results, create_fallback_page(i))
                        /\ UNCHANGED run_pc
                   ELSE /\ run_pc' = "raised"
                        /\ UNCHANGED results
    /\ UNCHANGED <<strategy, pages_images, batch_size, max_workers, batch_start,
                   batch_results, results_by_page, returned_pages, summary>>
    /\ UNCHANGED otherThanRun

\* "return results, ..." after the loop.
SeqReturn ==
    /\ strategy = "sequential"
    /\ run_pc = "loop"
    /\ Len(results) = NumPages
    /\ returned_pages' = results
    /\ run_pc' = "returned"
    /\ UNCHANGED <<strategy, pages_images, batch_size, max_workers, task,
                   batch_start, batch_results, results, results_by_page, summary>>
    /\ UNCHANGED otherThanRun

(***************************************************************************)
(* Worker pools (ThreadPoolExecutor, ProcessPoolExecutor).                 *)
(***************************************************************************)
Running == {i \in PageNumbers : task[i] = "running"}

Queued == {i \in PageNumbers : task[i] = "queued"}

\* A free worker takes the oldest queued task.
StartTask(i) ==
    /\ run_pc \in {"collecting", "unwinding"}
    /\ task[i] = "queued"
    /\ \A j \in Queued : i <= j
    /\ Cardinality(Running) < max_workers
    /\ task' = [task EXCEPT ![i] = "running"]
    /\ UNCHANGED <<strategy, pages_images, batch_size, max_workers, run_pc,
                   batch_start, batch_results, results, results_by_page,
                   returned_pages, summary>>
    /\ UNCHANGED otherThanRun

\* The task's call returns or raises: its future is done.
FinishTask(i) ==
    /\ task[i] = "running"
    /\ pages_images[i] # "hang"
    /\ task' = [task EXCEPT ![i] = "done"]
    /\ UNCHANGED <<strategy, pages_images, batch_size, max_workers, run_pc,
                   batch_start, batch_results, results, results_by_page,
                   returned_pages, summary>>
    /\ UNCHANGED otherThanRun

(***************************************************************************)
(* run_parallel                                                            *)
(***************************************************************************)
BatchEndShort(start) == Min(start + batch_size, NumPages) - 1

\* batch_end = min(batch_start + batch_size, len(pages_images))
BatchEnd(start) == Min(start + batch_size, NumPages)

\* A batch that takes one page of the next batch with it.
BatchOverlapping == (batch_start + 1)..Min(BatchEnd(batch_start) + 1, NumPages)

\* Pages of the batch: enumerate(pages_images[batch_start:batch_end],
\* batch_start + 1).
Batch == (batch_start + 1)..BatchEnd(batch_start)

\* Loop head of "for batch_start in range(0, len(pages_images), batch_size)"
\* and the submission of the batch's tasks to a fresh ThreadPoolExecutor.
ParSubmitBatch ==
    /\ strategy = "parallel"
    /\ run_pc = "loop"
    /\ batch_start < NumPages
    /\ task' = [i \in PageNumbers |-> IF i \in Batch THEN "queued" ELSE task[i]]
    /\ batch_results' = << >>
    /\ run_pc' = "collecting"
    /\ UNCHANGED <<strategy, pages_images, batch_size, max_workers, batch_start,
                   results, results_by_page, returned_pages, summary>>
    /\ UNCHANGED otherThanRun

\* One iteration of "for future in as_completed(future_to_page)": any
\* finished future of the batch, in completion order.
ParCollect(i) ==
    /\ strategy = "parallel"
    /\ run_pc = "collecting"
    /\ task[i] = "done"
    /\ task' = [task EXCEPT ![i] = "collected"]
    /\ LET b == pages_images[i]
       IN  IF b = "ok"
           THEN /\ batch_results' = Append(batch_results, ProcessedPage(i))
                /\ UNCHANGED run_pc
           ELSE IF RunnerCatches(b)
                THEN /\ batch_results' =
                            Append(batch_results, create_fallback_page(i))
                     /\ UNCHANGED run_pc
                ELSE /\ run_pc' = "unwinding"
                     /\ UNCHANGED batch_results
    /\ UNCHANGED <<strategy, pages_images, batch_size, max_workers, batch_start,
                   results, results_by_page, returned_pages, summary>>
    /\ UNCHANGED otherThanRun

\* as_completed is exhausted, the executor is shut down, and
\* results.extend(batch_results) ends the loop body.
ParEndBatch ==
    /\ strategy = "parallel"
    /\ run_pc = "collecting"
    /\ \A i \in PageNumbers : task[i] \in {"new", "collected"}
    /\ results' = results \o batch_results
    /\ batch_start' = batch_start + batch_size
    /\ run_pc' = "loop"
    /\ UNCHANGED <<strategy, pages_images, batch_size, max_workers, task,
                   batch_results, results_by_page, returned_pages, summary>>
    /\ UNCHANGED otherThanRun

\* results.sort(key=lambda p: p.page_number); return results, ...
ParReturn ==
    /\ strategy = "parallel"
    /\ run_pc = "loop"
    /\ batch_start >= NumPages
    /\ returned_pages' = SortByPageNumber(results)
    /\ run_pc' = "returned"
    /\ UNCHANGED <<strategy, pages_images, batch_size, max_workers, task,
                   batch_start, batch_results, results, results_by_page, summary>>
    /\ UNCHANGED otherThanRun

(***************************************************************************)
(* ParallelProcessor                                                       *)
(***************************************************************************)
\* _process_page_worker(task_data), run in a worker process for the task
\* with 0-based index page_idx, as the coordinator's future.result sees it:
\* the dict the worker returns, or the exception the call raises.
FutureOutcome(page_idx) ==
    LET b == pages_images[page_idx + 1]
        failure == [success |-> FALSE, page_number |-> page_idx + 1,
                    result |-> NonePage, error |-> b]
        page == ProcessedPage(page_idx + 1)
    IN  IF b = "ResultValueError"
        THEN [raised |-> TRUE, exc |-> ValueErrorT, value |-> failure]
        ELSE IF b \in {ValueErrorT, RuntimeErrorT}
             THEN IF WorkerCatches(b)
                  THEN [raised |-> FALSE, exc |-> "none", value |-> failure]
                  ELSE [raised |-> TRUE, exc |-> b, value |-> failure]
             ELSE [raised |-> FALSE, exc |-> "none",
                   value |-> [success |-> TRUE,
                              page_number |-> page.page_number,
                              result |-> page, error |-> "none"]]

\* Stages 1-3 up to the submission: all pages are read, one task per page is
\* built and submitted to the ProcessPoolExecutor.
ProcSubmitAll ==
    /\ strategy = "process"
    /\ run_pc = "submit"
    /\ task' = [i \in PageNumbers |-> "queued"]
    /\ results_by_page' = << >>
    /\ run_pc' = "collecting"
    /\ UNCHANGED <<strategy, pages_images, batch_size, max_workers, batch_start,
                   batch_results, results, returned_pages, summary>>
    /\ UNCHANGED otherThanRun

\* One iteration of "for future in as_completed(future_to_page)".  The
\* future is finished when as_completed yields it, so
\* future.result(timeout=120) answers at once, however long the task ran.
ProcCollect(i) ==
    /\ strategy = "process"
    /\ run_pc = "collecting"
    /\ task[i] = "done"
    /\ task' = [task EXCEPT ![i] = "collected"]
    /\ LET page_idx == i - 1
           out == FutureOutcome(page_idx)
       IN  IF ~out.raised
           THEN /\ results_by_page' = (page_idx :> out.value) @@ results_by_page
                /\ UNCHANGED run_pc
           ELSE IF CollectorCatches(out.exc)
                THEN /\ results_by_page' =
                            (page_idx :> [success |-> FALSE,
                                          page_number |-> page_idx + 1,
                                          result |-> NonePage,
                                          error |-> out.exc])
                            @@ results_by_page
                     /\ UNCHANGED run_pc
                ELSE /\ run_pc' = "unwinding"
                     /\ UNCHANGED results_by_page
    /\ UNCHANGED <<strategy, pages_images, batch_size, max_workers, batch_start,
                   batch_results, results, returned_pages, summary>>
    /\ UNCHANGED otherThanRun

\* [results_by_page[i]["result"] for i in sorted(results_by_page.keys())
\*  if results_by_page[i]["success"]], for the keys below k.
RECURSIVE SortedResults(_, _)
SortedResults(by_page, k) ==
    IF k = 0
    THEN << >>
    ELSE LET rest == SortedResults(by_page, k - 1)
         IN  IF (k - 1) \in DOMAIN by_page /\ by_page[k - 1].success
             THEN Append(rest, by_page[k - 1].result)
             ELSE rest

\* Stage 4: as_completed is exhausted, the pool is shut down, the results
\* are aggregated and the dict is returned.
ProcReturn ==
    /\ strategy = "process"
    /\ run_pc = "collecting"
    /\ \A i \in PageNumbers : task[i] = "collected"
    /\ LET sorted_results == SortedResults(results_by_page, NumPages)
       IN  /\ returned_pages' = sorted_results
           /\ summary' = [total_pages |-> NumPages,
                          processed_pages |-> Len(sorted_results),
                          failed_pages |-> NumPages - Len(sorted_results)]
    /\ run_pc' = "returned"
    /\ UNCHANGED <<strategy, pages_images, batch_size, max_workers, task,
                   batch_start, batch_results, results, results_by_page>>
    /\ UNCHANGED otherThanRun

\* An exception left the collection loop: the with block shuts the pool
\* down, waiting for the tasks still queued or running, and the exception
\* reaches the caller.
Unwind ==
    /\ run_pc = "unwinding"
    /\ Running = {}
    /\ Queued = {}
    /\ run_pc' = "raised"
    /\ UNCHANGED <<strategy, pages_images, batch_size, max_workers, task,
                   batch_start, batch_results, results, results_by_page,
                   returned_pages, summary>>
    /\ UNCHANGED otherThanRun

NextRun ==
    \/ SeqProcessPage
    \/ SeqReturn
    \/ \E i \in PageNumbers : StartTask(i)
    \/ \E i \in PageNumbers : FinishTask(i)
    \/ ParSubmitBatch
    \/ \E i \in PageNumbers : ParCollect(i)
    \/ ParEndBatch
    \/ ParReturn
    \/ ProcSubmitAll
    \/ \E i \in PageNumbers : ProcCollect(i)
    \/ ProcReturn
    \/ Unwind

InitRun == InitRunVars /\ IdlePage /\ IdleEngine /\ IdleDecide /\ IdleLayout /\ IdleQuality /\ IdleLadder /\ IdleThreads /\ IdleRecThreads /\ IdleUserFiles /\ IdleThoth

SpecRun == InitRun /\ [][NextRun]_vars

(***************************************************************************)
(* Properties of the execution strategies (checked under SpecRun).         *)
(***************************************************************************)
StrictlyAscending(pages) ==
    \A k \in 1..(Len(pages) - 1) :
        pages[k].page_number < pages[k + 1].page_number

PageNumberList(pages) == [k \in 1..Len(pages) |-> pages[k].page_number]

PageNumberSet(pages) == {pages[k].page_number : k \in 1..Len(pages)}

FailedPages == {i \in PageNumbers : ~Succeeds(i)}

\* C1: whatever the strategy, the number of pages, the batch size, the pool
\* size and the completion order, the returned page list is strictly
\* ascending by page_number.
C1_ReturnedPagesAscending ==
    run_pc = "returned" => StrictlyAscending(returned_pages)

\* C1 witness: run_parallel has returned although the results arrived out
\* of page order.
C1_Witness ==
    /\ run_pc = "returned"
    /\ strategy = "parallel"
    /\ Len(results) >= 3
    /\ ~StrictlyAscending(results)

\* C2 as stated: in every strategy the returned pages are numbered exactly
\* 1..N, one per input page, also when pages fail.
C2_OnePagePerInputEveryStrategy ==
    run_pc = "returned" =>
        PageNumberList(returned_pages) = [k \in 1..NumPages |-> k]

\* C2 amended: run_sequential and run_parallel return exactly one page per
\* input page, numbered 1..N, also when pages fail; process_parallel returns
\* exactly the pages that succeeded, leaves the failed ones out, and reports
\* total_pages = N.
C2_OnePagePerInput ==
    run_pc = "returned" =>
        IF strategy = "process"
        THEN /\ PageNumberSet(returned_pages) = PageNumbers \ FailedPages
             /\ Len(returned_pages) = Cardinality(PageNumbers \ FailedPages)
             /\ summary.total_pages = NumPages
        ELSE PageNumberList(returned_pages) = [k \in 1..NumPages |-> k]

\* C2 witness: run_parallel has returned all of at least two pages, one of
\* which failed.
C2_Witness ==
    /\ run_pc = "returned"
    /\ strategy = "parallel"
    /\ NumPages >= 2
    /\ FailedPages # {}
    /\ Len(returned_pages) = NumPages

\* C3: in run_sequential and run_parallel a page whose processing raises is
\* replaced by the fallback page with its page number, every other page
\* keeps its processed result, and the call never raises.
C3_FailedPagesFallBack ==
    strategy \in {"sequential", "parallel"} =>
        /\ run_pc \notin {"unwinding", "raised"}
        /\ run_pc = "returned" =>
              /\ Len(returned_pages) = NumPages
              /\ \A i \in PageNumbers :
                    returned_pages[i] = IF pages_images[i] = "ok"
                                        THEN ProcessedPage(i)
                                        ELSE create_fallback_page(i)

\* C3 witness: run_parallel has returned with a page that raised an
\* exception other than ValueError and a page that was processed.
C3_Witness ==
    /\ run_pc = "returned"
    /\ strategy = "parallel"
    /\ \E i, j \in PageNumbers :
          /\ pages_images[i] = RuntimeErrorT
          /\ pages_images[j] = "ok"
          /\ returned_pages[i].layout_type = "unknown"
          /\ returned_pages[j].layout_type = "single"

\* C4: in process_parallel a page failure of any exception type is recorded
\* for the page, the page is left out, the others are returned, and the call
\* returns with consistent counters.
C4_FailuresRecorded ==
    strategy = "process" =>
        /\ run_pc \notin {"unwinding", "raised"}
        /\ run_pc = "returned" =>
              /\ summary.processed_pages + summary.failed_pages
                    = summary.total_pages
              /\ summary.failed_pages = Cardinality(FailedPages)
              /\ PageNumberSet(returned_pages) = PageNumbers \ FailedPages
              /\ \A i \in FailedPages :
                    /\ (i - 1) \in DOMAIN results_by_page
                    /\ ~results_by_page[i - 1].success

\* The worker of page i did not produce its result within the timeout.
TimedOut(i) == pages_images[i] \in {"slow", "hang"}

\* C5: process_parallel records a page whose worker exceeded the 120 s
\* timeout as failed, and a worker that never finishes does not block it:
\* until it has returned or raised, it can take a step.
C5_TimeoutEnforced ==
    strategy = "process" =>
        /\ run_pc = "returned" =>
              \A i \in PageNumbers :
                  TimedOut(i) => ~results_by_page[i - 1].success
        /\ run_pc \notin {"returned", "raised"} => ENABLED NextRun

\* C7: the fallback page run_sequential and run_parallel substitute for a
\* failed page n has page_number n, exactly one column of confidence 0,
\* page_confidence_mean 0 and a warning.
C7_FallbackPageShape ==
    (strategy \in {"sequential", "parallel"} /\ run_pc = "returned") =>
        \A i \in PageNumbers :
            pages_images[i] # "ok" =>
                /\ returned_pages[i].page_number = i
                /\ Len(returned_pages[i].columns) = 1
                /\ \A c \in 1..Len(returned_pages[i].columns) :
                      returned_pages[i].columns[c].confidence = 0
                /\ returned_pages[i].page_confidence_mean = 0
                /\ Len(returned_pages[i].warnings) > 0

(***************************************************************************)
(* PageProcessor.process (core/page_processor.py)                          *)
(***************************************************************************)
MaxRegions == 2

ColIndexes == {1, 2}

\* Region widths: a zero-width bounding box and a proper one.
Widths == {0, 200}

Confidences == {0, 90, 100}

\* QualityAssessor.assess returns its metrics or raises (cv2.cvtColor or
\* cv2.Laplacian reject the buffer).  Contrast is kept in hundredths.
QualitySamples ==
    {[sharpness |-> 300, contrast |-> 70], [sharpness |-> 200, contrast |-> 50],
     [sharpness |-> 100, contrast |-> 30], [sharpness |-> 0, contrast |-> 0]}

\* _classify_page_quality
classify_page_quality(metrics) ==
    IF metrics.sharpness > 250 /\ metrics.contrast > 60 THEN "excellent"
    ELSE IF metrics.sharpness > 150 /\ metrics.contrast > 40 THEN "good"
    ELSE IF metrics.sharpness > 80 /\ metrics.contrast > 25 THEN "fair"
    ELSE "poor"

\* Regions as the LayoutDetector contract gives them: dicts with integer
\* x, y, w, h and a 1-based col_index, in the detector's order.  The model
\* keeps col_index and w; h is positive.
Regions == [col_index : ColIndexes, w : Widths]

RegionLists == UNION {[1..n -> Regions] : n \in 0..MaxRegions}

LayoutTypes == {"single", "double"}

\* _extract_region: image[y : y + h, x : x + w] is an empty array when the
\* region has no width.
extract_region(region) == [empty |-> region.w = 0]

\* What config_optimizer.find_optimal_config does with a region image, as
\* _process_region sees it: it raises, or returns a payload that is well
\* formed, or one whose confidence is not a number or lies outside 0..100.
\* An empty image is rejected with ValueError, as ImagePreprocessor._validate
\* and TesseractCoreEngine.recognize reject it.
find_optimal_config(region_img) ==
    IF region_img.empty
    THEN {[kind |-> "raises", exc |-> ValueErrorT, confidence |-> 0,
           has_words |-> FALSE]}
    ELSE {[kind |-> "payload", exc |-> "none", confidence |-> c, has_words |-> w] :
              c \in Confidences, w \in BOOLEAN}
         \cup {[kind |-> k, exc |-> "none", confidence |-> 0, has_words |-> FALSE] :
                  k \in {"confidence_not_numeric", "confidence_out_of_range"}}
         \cup {[kind |-> "raises", exc |-> e, confidence |-> 0, has_words |-> FALSE] :
                  e \in {RuntimeErrorT, TypeErrorT, KeyErrorT, OSErrorT}}

\* _safe_bbox
safe_bbox(region) == IF region.w > 0 THEN "region" ELSE "none"

\* _resolve_bbox: the union of the word boxes when there are words, else
\* the region's own box.
resolve_bbox(region, has_words) ==
    IF has_words THEN "words" ELSE safe_bbox(region)

NoColumn ==
    [col_index |-> 0, text |-> "", confidence |-> 0, bbox |-> "none",
     config_used |-> "none"]

\* _process_region after find_optimal_config has answered with ocr_result:
\* the ColumnResult, or the exception raised while the payload is read
\* (float() of a non-number: ValueError; ColumnResult's validation of a
\* confidence outside 0..100: pydantic's ValidationError, a ValueError).
process_region(region, ocr_result) ==
    IF ocr_result.kind = "raises"
    THEN [raised |-> TRUE, exc |-> ocr_result.exc, column |-> NoColumn]
    ELSE IF ocr_result.kind \in {"confidence_not_numeric",
                                "confidence_out_of_range"}
         THEN [raised |-> TRUE, exc |-> ValueErrorT, column |-> NoColumn]
         ELSE [raised |-> FALSE, exc |-> "none",
               column |-> [col_index |-> region.col_index,
                           text |-> "text",
                           confidence |-> ocr_result.confidence,
                           bbox |-> resolve_bbox(region, ocr_result.has_words),
                           config_used |-> "config"]]

\* The ColumnResult the except clause of the region loop substitutes.
FailedColumn(region) ==
    [col_index |-> region.col_index, text |-> "", confidence |-> 0,
     bbox |-> safe_bbox(region), config_used |-> "none"]

RegionCatchesNoValueError(exc) == exc \in {RuntimeErrorT, TypeErrorT, KeyErrorT}

\* "except (RuntimeError, ValueError, TypeError, KeyError)" of the loop.
RegionCatches(exc) ==
    exc \in {RuntimeErrorT, ValueErrorT, TypeErrorT, KeyErrorT}

RECURSIVE SumSeq(_)
SumSeq(s) == IF Len(s) = 0 THEN 0 ELSE s[Len(s)] + SumSeq(SubSeq(s, 1, Len(s) - 1))

MeanOfSuccessful(confs) ==
    LET good == SelectSeq(confs, LAMBDA c : c > 0)
    IN  IF Len(good) = 0
        THEN [num |-> 0, den |-> 1]
        ELSE [num |-> SumSeq(good), den |-> Len(good)]

\* float(np.mean(confidences)) if confidences else 0.0, as a fraction.
MeanOf(confs) ==
    IF Len(confs) = 0
    THEN [num |-> 0, den |-> 1]
    ELSE [num |-> SumSeq(confs), den |-> Len(confs)]

InitPageVars ==
    /\ pg_pc = "assess"
    /\ page_number \in 1..MaxPages
    /\ quality_metrics = NoQuality
    /\ regions = << >>
    /\ layout_type = "none"
    /\ region_log = << >>
    /\ columns = << >>
    /\ confidences = << >>
    /\ page_result = NoPageResult
    /\ pg_exc = "none"

\* Stage 1: quality_assessor.assess(image) and _classify_page_quality.
\* There is no try around it: an exception leaves process.
Assess ==
    /\ pg_pc = "assess"
    /\ \/ \E q \in QualitySamples :
             /\ quality_metrics' = q
             /\ pg_pc' = "detect"
             /\ UNCHANGED pg_exc
       \/ /\ pg_exc' = Cv2ErrorT
          /\ pg_pc' = "raised"
          /\ UNCHANGED quality_metrics
    /\ UNCHANGED <<page_number, regions, layout_type, region_log, columns,
                   confidences, page_result>>
    /\ UNCHANGED otherThanPage

\* Stage 2: layout_detector.detect(image), outside any try as well.
Detect ==
    /\ pg_pc = "detect"
    /\ \/ \E rs \in RegionLists, lt \in LayoutTypes :
             /\ regions' = rs
             /\ layout_type' = lt
             /\ pg_pc' = "regions"
             /\ UNCHANGED pg_exc
       \/ /\ pg_exc' = Cv2ErrorT
          /\ pg_pc' = "raised"
          /\ UNCHANGED <<regions, layout_type>>
    /\ UNCHANGED <<page_number, quality_metrics, region_log, columns,
                   confidences, page_result>>
    /\ UNCHANGED otherThanPage

\* Stage 3: one iteration of "for region in regions".
ProcessRegion ==
    /\ pg_pc = "regions"
    /\ Len(columns) < Len(regions)
    /\ LET region == regions[Len(columns) + 1]
       IN  \E ocr_result \in find_optimal_config(extract_region(region)) :
               LET r == process_region(region, ocr_result)
               IN  IF ~r.raised
                   THEN /\ columns' = Append(columns, r.column)
                        /\ confidences' = Append(confidences, r.column.confidence)
                        /\ region_log' = Append(region_log, "ok")
                        /\ UNCHANGED <<pg_pc, pg_exc>>
                   ELSE IF RegionCatches(r.exc)
                        THEN /\ columns' = Append(columns, FailedColumn(region))
                             /\ confidences' = Append(confidences, 0)
                             /\ region_log' = Append(region_log, r.exc)
                             /\ UNCHANGED <<pg_pc, pg_exc>>
                        ELSE /\ pg_exc' = r.exc
                             /\ pg_pc' = "raised"
                             /\ region_log' = Append(region_log, r.exc)
                             /\ UNCHANGED <<columns, confidences>>
    /\ UNCHANGED <<page_number, quality_metrics, regions, layout_type,
                   page_result>>
    /\ UNCHANGED otherThanPage

\* Stage 4: the PageResult is built and returned.
Aggregate ==
    /\ pg_pc = "regions"
    /\ Len(columns) = Len(regions)
    /\ page_result' = [page_number |-> page_number,
                       layout_type |-> layout_type,
                       columns |-> columns,
                       page_quality |-> classify_page_quality(quality_metrics),
                       page_confidence_mean |-> MeanOf(confidences),
                       warnings |-> << >>]
    /\ pg_pc' = "returned"
    /\ UNCHANGED <<page_number, quality_metrics, regions, layout_type,
                   region_log, columns, confidences, pg_exc>>
    /\ UNCHANGED otherThanPage

NextPage ==
    \/ Assess
    \/ Detect
    \/ ProcessRegion
    \/ Aggregate

InitPage == InitPageVars /\ IdleRun /\ IdleEngine /\ IdleDecide /\ IdleLayout /\ IdleQuality /\ IdleLadder /\ IdleThreads /\ IdleRecThreads /\ IdleUserFiles /\ IdleThoth

SpecPage == InitPage /\ [][NextPage]_vars

(***************************************************************************)
(* Properties of PageProcessor.process (checked under SpecPage).           *)
(***************************************************************************)
\* C6: process never raises to its caller; a failure of quality assessment,
\* of layout detection or one escaping the region handler yields a fallback
\* PageResult for the page number, with confidence 0 and a warning.
C6_ProcessNeverRaises ==
    /\ pg_pc # "raised"
    /\ (pg_pc = "returned" /\ pg_exc # "none") =>
          /\ page_result.page_number = page_number
          /\ page_result.page_confidence_mean.num = 0
          /\ Len(page_result.warnings) > 0

\* The error classes the region loop recognizes: bad bounds and malformed
\* engine payloads surface as one of these.
RecognizedErrors == {RuntimeErrorT, ValueErrorT, TypeErrorT, KeyErrorT}

\* C8: a region that fails with a recognized error (a zero-width bounding
\* box, a malformed payload) yields a column of confidence 0 and empty text
\* with the region's col_index, the page is not aborted, every sibling keeps
\* its own result, and the page has exactly one column per region.
C8_RegionFailureIsolated ==
    /\ pg_pc = "raised" => pg_exc \notin RecognizedErrors
    /\ pg_pc \in {"regions", "returned"} =>
          \A k \in 1..Len(columns) :
              /\ columns[k].col_index = regions[k].col_index
              /\ (region_log[k] \in RecognizedErrors \/ regions[k].w = 0) =>
                    /\ columns[k].confidence = 0
                    /\ columns[k].text = ""
              /\ region_log[k] = "ok" =>
                    /\ columns[k].text = "text"
                    /\ regions[k].w > 0
    /\ pg_pc = "returned" =>
          /\ Len(page_result.columns) = Len(regions)
          /\ page_result.columns = columns

\* C8 witness: a page has been returned whose first region had zero width
\* and whose second region was recognized.
C8_Witness ==
    /\ pg_pc = "returned"
    /\ Len(regions) = 2
    /\ regions[1].w = 0
    /\ page_result.columns[1].confidence = 0
    /\ page_result.columns[1].text = ""
    /\ region_log[2] = "ok"
    /\ page_result.columns[2].confidence = 90

\* Sum of the confidences of a list of columns.
RECURSIVE ColumnConfidenceSum(_)
ColumnConfidenceSum(cols) ==
    IF Len(cols) = 0 THEN 0
    ELSE cols[1].confidence + ColumnConfidenceSum(Tail(cols))

\* C16: page_confidence_mean of the returned PageResult is the arithmetic
\* mean of the confidences of its columns, a failed region counting as 0,
\* is 0 when there are no columns, and lies in 0..100.
C16_PageConfidenceIsMean ==
    pg_pc = "returned" =>
        LET cols == page_result.columns
            mean == page_result.page_confidence_mean
        IN  /\ mean.den > 0
            /\ IF Len(cols) = 0
               THEN mean.num = 0
               ELSE mean.num * Len(cols) = mean.den * ColumnConfidenceSum(cols)
            /\ 0 <= mean.num
            /\ mean.num <= 100 * mean.den

\* C16 witness: a page returned with a failed region and a region of
\* confidence 90, whose mean is 45.
C16_Witness ==
    /\ pg_pc = "returned"
    /\ Len(page_result.columns) = 2
    /\ region_log[1] \in RecognizedErrors
    /\ page_result.columns[1].confidence = 0
    /\ page_result.columns[2].confidence = 90
    /\ page_result.page_confidence_mean = [num |-> 90, den |-> 2]

(***************************************************************************)
(* TesseractManagedEngine (engines/managed/tesseract_managed.py)           *)
(***************************************************************************)
\* Number of recognize calls a behaviour makes.
MaxCalls == 3

\* "if len(self.cache) < 1000"
CacheCapacity == 1000

\* The engine's constructor arguments.
Languages == "por+eng"

ModelType == "fast"

\* Page images: the buffer's bytes and its shape.
Images == {[bytes |-> "A", shape |-> <<2, 3>>],
           [bytes |-> "B", shape |-> <<2, 3>>]}

\* The config dicts passed to recognize.  min_confidence is a float, kept
\* in thousandths of a percent; word confidences are whole percents.
ConfigSamples ==
    {[psm |-> 3, quality_hint |-> "good", min_confidence |-> 0],
     [psm |-> 6, quality_hint |-> "poor", min_confidence |-> 20000]}

PageQualities == {"excellent", "good", "fair", "poor", "unknown"}

\* _normalize_quality
normalize_quality(value) ==
    IF value \in PageQualities THEN value ELSE "unknown"

\* base_profiles of optimize_ocr_config
BaseProfile(model_type) ==
    CASE model_type = "fast" -> [oem |-> 1, timeout |-> 15]
      [] model_type = "standard" -> [oem |-> 2, timeout |-> 30]
      [] model_type = "best" -> [oem |-> 3, timeout |-> 45]

Max(a, b) == IF a > b THEN a ELSE b

\* optimize_ocr_config (engines/optimizer.py), psm given.
optimize_ocr_config(psm, quality, model_type) ==
    LET base == BaseProfile(model_type)
    IN  IF quality = "fair"
        THEN [psm |-> psm, oem |-> base.oem, timeout |-> base.timeout,
              extra |-> "-c textord_min_linesize=1.2"]
        ELSE IF quality = "poor"
             THEN [psm |-> psm, oem |-> base.oem,
                   timeout |-> Max(base.timeout, 60),
                   extra |-> "-c textord_min_linesize=1.5"]
             ELSE [psm |-> psm, oem |-> base.oem, timeout |-> base.timeout,
                   extra |-> ""]

\* f"{min_confidence:.2f}": thousandths rounded to hundredths.
FormatMinConfidence(min_confidence) == (min_confidence + 5) \div 10

\* _compute_cache_key: the md5 prefix of image.tobytes(), which reads the
\* buffer and not the shape, joined with languages, model type, psm, oem,
\* timeout and the formatted min_confidence.
compute_cache_key(image, optimized_config, min_confidence) ==
    <<image.bytes, Languages, ModelType, optimized_config.psm,
      optimized_config.oem, optimized_config.timeout,
      FormatMinConfidence(min_confidence)>>

\* TesseractConfigBuilder.build(psm, oem, extra): the CLI string, kept as
\* its variable parts.
build(psm, oem, extra) ==
    [kind |-> "build", psm |-> psm, oem |-> oem, extra |-> extra]

NoConfigUsed == [kind |-> "none", psm |-> 0, oem |-> 0, extra |-> ""]

\* Python len of the words the model's texts are made of.
TokenLen(t) ==
    CASE t = "Freud" -> 5
      [] t = "gozo" -> 4
      [] t = "Lacan" -> 5
      [] t = "[OCR" -> 4
      [] t = "FAILED:" -> 7
      [] t = "tesseract" -> 9
      [] t = "error:" -> 6
      [] t = "timeout]" -> 8

RECURSIVE SumTokenLen(_)
SumTokenLen(tokens) ==
    IF Len(tokens) = 0 THEN 0
    ELSE TokenLen(tokens[1]) + SumTokenLen(Tail(tokens))

\* len(" ".join(tokens)): a text is kept as the list of its words.
JoinedLen(tokens) ==
    IF Len(tokens) = 0 THEN 0 ELSE SumTokenLen(tokens) + Len(tokens) - 1

\* What self.core.recognize can do with an image: return its word list
\* (text and conf per word), raise RuntimeError (a TesseractError), or
\* raise something else (TesseractNotFoundError, an OSError).
CoreSamples ==
    {[kind |-> "words",
      words |-> <<[text |-> "Freud", conf |-> 95], [text |-> "gozo", conf |-> 10]>>],
     [kind |-> "words", words |-> << >>],
     [kind |-> RuntimeErrorT, words |-> << >>],
     [kind |-> OSErrorT, words |-> << >>]}

\* str(error) of the RuntimeError the core raises.
CoreErrorText == "tesseract error: timeout"

\* _post_process_core_result: words below min_confidence are dropped, the
\* text is the kept words joined by spaces, the confidence their mean.
post_process_core_result(core_words, min_confidence) ==
    LET kept == SelectSeq(core_words,
                    LAMBDA w : w.text # "" /\ ~(w.conf * 1000 < min_confidence))
        text_parts == [i \in 1..Len(kept) |-> kept[i].text]
        confs == [i \in 1..Len(SelectSeq(kept, LAMBDA w : w.conf >= 0)) |->
                     SelectSeq(kept, LAMBDA w : w.conf >= 0)[i].conf]
    IN  [text |-> text_parts,
         confidence |-> MeanOf(confs),
         words |-> [i \in 1..Len(kept) |->
                       [text |-> kept[i].text, confidence |-> kept[i].conf]],
         word_count |-> Len(kept),
         char_count |-> JoinedLen(text_parts),
         config_used |-> NoConfigUsed,
         error_original |-> "none",
         fallback_error |-> "none"]

FallbackAttemptsLegacyFirst ==
    <<[psm |-> 3, oem |-> 0, confidence |-> 10],
      [psm |-> 6, oem |-> 1, confidence |-> 30],
      [psm |-> 11, oem |-> 1, confidence |-> 20]>>

\* fallback_attempts of apply_fallback_strategy (engines/fallback.py).
FallbackAttempts ==
    <<[psm |-> 6, oem |-> 1, confidence |-> 30],
      [psm |-> 11, oem |-> 1, confidence |-> 20],
      [psm |-> 3, oem |-> 0, confidence |-> 10]>>

\* The text pytesseract.image_to_string gives a fallback attempt.
FallbackText == <<"Lacan">>

\* The fixed failure marker f"[OCR FAILED: {error[:50]}]".
FailureMarker == <<"[OCR", "FAILED:", "tesseract", "error:", "timeout]">>

\* What the three fallback attempts do, in order: "text" (non-empty text),
\* "empty", "error" (TesseractError, RuntimeError or TimeoutExpired, which
\* the ladder catches) or "crash" (any other exception).
LadderSamples ==
    {<<"text", "text", "text">>, <<"error", "empty", "text">>,
     <<"error", "error", "error">>, <<"empty", "crash", "text">>}

NoResult ==
    [text |-> << >>, confidence |-> [num |-> 0, den |-> 1], words |-> << >>,
     word_count |-> 0, char_count |-> 0, config_used |-> NoConfigUsed,
     error_original |-> "none", fallback_error |-> "none"]

\* The loop of apply_fallback_strategy from attempt k on.
RECURSIVE FallbackFrom(_, _, _)
FallbackFrom(k, attempts, last_exception) ==
    IF k > Len(FallbackAttempts)
    THEN [raised |-> FALSE, exc |-> "none",
          result |-> [text |-> FailureMarker,
                      confidence |-> [num |-> 0, den |-> 1],
                      words |-> << >>,
                      word_count |-> 0,
                      char_count |-> 0,
                      config_used |-> [kind |-> "failed_all_fallbacks",
                                       psm |-> 0, oem |-> 0, extra |-> ""],
                      error_original |-> CoreErrorText,
                      fallback_error |-> last_exception]]
    ELSE IF attempts[k] = "text"
         THEN [raised |-> FALSE, exc |-> "none",
               result |-> [text |-> FallbackText,
                           confidence |-> [num |-> FallbackAttempts[k].confidence,
                                           den |-> 1],
                           words |-> << >>,
                           word_count |-> Len(FallbackText),
                           char_count |-> JoinedLen(FallbackText),
                           config_used |-> [kind |-> "fallback",
                                            psm |-> FallbackAttempts[k].psm,
                                            oem |-> FallbackAttempts[k].oem,
                                            extra |-> ""],
                           error_original |-> CoreErrorText,
                           fallback_error |-> "none"]]
         ELSE IF attempts[k] = "empty"
              THEN FallbackFrom(k + 1, attempts, last_exception)
              ELSE IF attempts[k] = "error"
                   THEN FallbackFrom(k + 1, attempts, "TesseractError")
                   ELSE [raised |-> TRUE, exc |-> OSErrorT, result |-> NoResult]

\* apply_fallback_strategy
apply_fallback_strategy(attempts) == FallbackFrom(1, attempts, "None")

\* DEFAULT_WORDS_PATH of UserFilesManager
WordsPath == "/tmp/tesseract_user_words.txt"

\* len(self.cache)
CacheSize == cache_other + Cardinality(DOMAIN cache)

CacheHasRoomNever(n) == FALSE

CacheHasRoomInverted(n) == n > CacheCapacity

CacheHasRoomOffByOne(n) == n <= CacheCapacity

\* "len(self.cache) < 1000"
CacheHasRoom(n) ==
    n < CacheCapacity

\* Earlier calls on other images, each a miss whose result was stored:
\* none, or one short of the capacity.
PriorEntries == {0, CacheCapacity - 1}

InitEngineVars ==
    /\ cache = EmptyCache
    /\ cache_other \in PriorEntries
    /\ stats = [total_pages |-> cache_other, cache_hits |-> 0,
                cache_misses |-> cache_other]
    /\ words_file = IF cache_other = 0 THEN "none" ELSE WordsPath
    /\ core_calls = cache_other
    /\ call_log = << >>

\* OCRStats (engines/stats.py); of update the model keeps total_pages.
record_cache_hit(s) == [s EXCEPT !.cache_hits = @ + 1]

RecordMissNotCounted(s) == s

record_cache_miss(s) == [s EXCEPT !.cache_misses = @ + 1]

update(s) == [s EXCEPT !.total_pages = @ + 1]

EngineCatchesNothing(exc) == FALSE

\* "except RuntimeError as error" of recognize.
EngineCatches(exc) ==
    exc = RuntimeErrorT

\* What a miss does after record_cache_miss, given what the core engine and
\* the fallback attempts do: the result recognize returns, or the exception
\* that leaves it.  config_used is written over the result on both paths.
MissOutcome(core, attempts, min_confidence, config_used) ==
    IF core.kind = "words"
    THEN [raised |-> FALSE, exc |-> "none",
          result |-> [post_process_core_result(core.words, min_confidence)
                          EXCEPT !.config_used = config_used]]
    ELSE IF EngineCatches(core.kind)
         THEN LET fb == apply_fallback_strategy(attempts)
              IN  IF fb.raised
                  THEN fb
                  ELSE [fb EXCEPT !.result.config_used = config_used]
         ELSE [raised |-> TRUE, exc |-> core.kind, result |-> NoResult]

\* The environments of a miss: the fallback attempts matter only when the
\* core raised RuntimeError.
MissEnvironments ==
    {env \in [core : CoreSamples, attempts : LadderSamples] :
        env.core.kind # RuntimeErrorT => env.attempts = <<"text", "text", "text">>}

\* A hit calls neither the core engine nor the fallback attempts.
NoEnv == [core |-> [kind |-> "none", words |-> << >>], attempts |-> << >>]

\* The optimized configuration recognize derives from its config dict.
OptimizedConfig(config) ==
    optimize_ocr_config(config.psm, normalize_quality(config.quality_hint),
                        ModelType)

\* The cache key recognize computes for its arguments.
CacheKeyOf(image, config) ==
    compute_cache_key(image, OptimizedConfig(config), config.min_confidence)

\* One call of recognize(image, config).  Each call is logged with its
\* arguments, how it ended, what it returned, len(self.cache) on entry and
\* what the core engine and the fallback attempts did during it.
Recognize(image, config) ==
    /\ Len(call_log) < MaxCalls
    /\ LET min_confidence == config.min_confidence
           optimized_config == OptimizedConfig(config)
           cache_key == CacheKeyOf(image, config)
           input == [image |-> image, config |-> config]
       IN  /\ words_file' = WordsPath
           /\ IF cache_key \in DOMAIN cache
              THEN /\ stats' = record_cache_hit(stats)
                   /\ call_log' = Append(call_log,
                                     [input |-> input, outcome |-> "hit",
                                      exc |-> "none", result |-> cache[cache_key],
                                      cache_len |-> CacheSize, env |-> NoEnv])
                   /\ UNCHANGED <<cache, cache_other, core_calls>>
              ELSE \E env \in MissEnvironments :
                     LET config_used == build(optimized_config.psm,
                                              optimized_config.oem,
                                              optimized_config.extra)
                         out == MissOutcome(env.core, env.attempts,
                                            min_confidence, config_used)
                     IN  /\ core_calls' = core_calls + 1
                         /\ UNCHANGED cache_other
                         /\ IF out.raised
                            THEN /\ stats' = record_cache_miss(stats)
                                 /\ call_log' = Append(call_log,
                                       [input |-> input, outcome |-> "raised",
                                        exc |-> out.exc, result |-> NoResult,
                                        cache_len |-> CacheSize, env |-> env])
                                 /\ UNCHANGED cache
                            ELSE /\ stats' = update(record_cache_miss(stats))
                                 /\ cache' = IF CacheHasRoom(CacheSize)
                                             THEN (cache_key :> out.result) @@ cache
                                             ELSE cache
                                 /\ call_log' = Append(call_log,
                                       [input |-> input, outcome |-> "miss",
                                        exc |-> "none", result |-> out.result,
                                        cache_len |-> CacheSize, env |-> env])
    /\ UNCHANGED otherThanEngine

NextEngine == \E image \in Images, config \in ConfigSamples : Recognize(image, config)

InitEngine == InitEngineVars /\ IdleRun /\ IdlePage /\ IdleDecide /\ IdleLayout /\ IdleQuality /\ IdleLadder /\ IdleThreads /\ IdleRecThreads /\ IdleUserFiles /\ IdleThoth

SpecEngine == InitEngine /\ [][NextEngine]_vars

(***************************************************************************)
(* Properties of TesseractManagedEngine.recognize (checked under           *)
(* SpecEngine).                                                            *)
(***************************************************************************)
\* The calls before the latest one that returned a result for its input.
ReturnedEarlier(log, input) ==
    {i \in 1..(Len(log) - 1) :
        log[i].input = input /\ log[i].outcome # "raised"}

\* The call just made hit the cache and returned what call i returned.
HitRepeating(i) ==
    LET call == call_log'[Len(call_log')]
    IN  /\ call.outcome = "hit"
        /\ stats'.cache_hits = stats.cache_hits + 1
        /\ stats'.cache_misses = stats.cache_misses
        /\ core_calls' = core_calls
        /\ call.result = call_log[i].result

\* C9 as stated: after recognize(image, config) has returned, a later call
\* with the same image and config adds one to cache_hits, leaves
\* cache_misses alone, does not call the core engine and returns a payload
\* equal to the earlier result.
C9_SecondCallHits ==
    [][\A i \in ReturnedEarlier(call_log', call_log'[Len(call_log')].input) :
           HitRepeating(i)]_vars

\* C9, amended: the same, provided the earlier call was a hit or a miss
\* that found fewer than 1000 entries in the cache, so that its result was
\* stored.
C9_SecondCallHitsWhenStored ==
    [][\A i \in ReturnedEarlier(call_log', call_log'[Len(call_log')].input) :
           (call_log[i].outcome = "hit" \/ call_log[i].cache_len < CacheCapacity)
               => HitRepeating(i)]_vars

\* C9 witness: a miss stored its result, another image was recognized, and
\* the first call was repeated and hit, returning the same payload.
C9_Witness ==
    /\ Len(call_log) = 3
    /\ call_log[1].outcome = "miss"
    /\ call_log[1].cache_len < CacheCapacity
    /\ call_log[2].input # call_log[1].input
    /\ call_log[3].input = call_log[1].input
    /\ call_log[3].outcome = "hit"
    /\ call_log[3].result = call_log[1].result
    /\ stats.cache_hits = 1

\* C10: the cache never holds more than 1000 entries; a call never removes
\* or changes an entry; at 1000 entries nothing is inserted; and a hit
\* returns the entry stored under its key.
C10_CacheBoundedNoEviction ==
    /\ CacheSize <= CacheCapacity
    /\ [][/\ CacheSize' <= CacheCapacity
          /\ cache_other' >= cache_other
          /\ \A k \in DOMAIN cache : k \in DOMAIN cache' /\ cache'[k] = cache[k]
          /\ CacheSize = CacheCapacity => cache' = cache /\ cache_other' = cache_other
          /\ LET call == call_log'[Len(call_log')]
             IN  call.outcome = "hit" =>
                     call.result = cache[CacheKeyOf(call.input.image,
                                                    call.input.config)]]_vars

\* C10 witness: the cache holds 1000 entries and a miss that found it full
\* returned a result that is not in it.
C10_Witness ==
    /\ CacheSize = CacheCapacity
    /\ \E j \in 1..Len(call_log) :
          /\ call_log[j].outcome = "miss"
          /\ call_log[j].cache_len = CacheCapacity
          /\ CacheKeyOf(call_log[j].input.image, call_log[j].input.config)
                \notin DOMAIN cache

\* C11: when the core engine raises on the primary call and the first
\* fallback attempt returns non-empty text, recognize returns confidence
\* 30 and a config_used naming the fallback variant fallback_psm6_oem1.
C11_FallbackNamesVariant ==
    \A j \in 1..Len(call_log) :
        (/\ call_log[j].env.core.kind = RuntimeErrorT
         /\ call_log[j].env.attempts[1] = "text")
            => /\ call_log[j].outcome = "miss"
               /\ call_log[j].result.confidence = [num |-> 30, den |-> 1]
               /\ call_log[j].result.config_used
                     = [kind |-> "fallback", psm |-> 6, oem |-> 1, extra |-> ""]

\* The ladder meets an exception it does not catch before any attempt
\* returns text.
LadderCrashes(attempts) ==
    \E k \in 1..Len(attempts) :
        /\ attempts[k] = "crash"
        /\ \A i \in 1..(k - 1) : attempts[i] # "text"

\* No fallback attempt returns text: each raises an engine error or
\* returns empty text.
AllAttemptsFail(attempts) ==
    /\ Len(attempts) = Len(FallbackAttempts)
    /\ \A k \in 1..Len(attempts) : attempts[k] \in {"error", "empty"}

\* The terminal result: confidence 0, the failure marker as text and the
\* originating error recorded.
TerminalResult(result) ==
    /\ result.confidence = [num |-> 0, den |-> 1]
    /\ result.text = FailureMarker
    /\ result.error_original = CoreErrorText

C17_CharCountMatchesText ==
    \A j \in 1..Len(call_log) :
        call_log[j].outcome # "raised"
            => call_log[j].result.char_count = JoinedLen(call_log[j].result.text)

(***************************************************************************)
(* ConfigStrategy.decide (optimization/config_strategy.py)                 *)
(***************************************************************************)
\* Number of decide calls a behaviour makes.
MaxDecides == 3

\* Class attributes of ConfigStrategy.  Sharpness and contrast are floats,
\* kept in hundredths: 50 is 5000 and 0.30 is 30.
SHARPNESS_LOW == 5000

SHARPNESS_MEDIUM == 9000

SHARPNESS_HIGH == 15000

CONTRAST_LOW == 30

CONTRAST_MEDIUM == 45

CONTRAST_HIGH == 55

\* The literals 35 and 50 of the progressive scaling, in hundredths.
ScaleStepLow == 3500

ScaleStepMid == 5000

\* A value of the quality dict: a number, a string that is no number,
\* None, or no such key.
Num(v) == [kind |-> "num", v |-> v]

InvalidString == [kind |-> "str", v |-> 0]

NoneValue == [kind |-> "none", v |-> 0]

MissingKey == [kind |-> "missing", v |-> 0]

SharpnessSamples ==
    {0, 3400, 3500, 4900, 4980, 4990, 5000, 8900, 9000, 14900, 15000, 22000}

ContrastSamples == {0, 10, 20, 29, 30, 44, 45, 54, 55, 80}

Malformed == {InvalidString, NoneValue, MissingKey}

LayoutSamples == {"single", "double", "multi", "Double", " DOUBLE "}

QualityDicts ==
    [is_clean_digital : BOOLEAN,
     sharpness : {Num(v) : v \in SharpnessSamples} \cup Malformed,
     contrast : {Num(v) : v \in ContrastSamples} \cup Malformed]

\* float(quality.get(key, 0.0)): the number, 0.0 for a missing key,
\* ValueError for a string that is no number, TypeError for None.
ToFloat(field) ==
    CASE field.kind = "num" -> [raised |-> FALSE, exc |-> "none", v |-> field.v]
      [] field.kind = "missing" -> [raised |-> FALSE, exc |-> "none", v |-> 0]
      [] field.kind = "str" -> [raised |-> TRUE, exc |-> ValueErrorT, v |-> 0]
      [] field.kind = "none" -> [raised |-> TRUE, exc |-> TypeErrorT, v |-> 0]

\* EngineConfig; scale is kept in tenths (1.5 is 15).
EngineConfig(pre_type, psm, scale, oem) ==
    [pre_type |-> pre_type, psm |-> psm, scale |-> scale, oem |-> oem]

NoEngineConfig == EngineConfig("none", 0, 0, 0)

Raises(exc) == [raised |-> TRUE, exc |-> exc, config |-> NoEngineConfig]

Returns(config) == [raised |-> FALSE, exc |-> "none", config |-> config]

DecideBlurFromMedium(layout, is_clean, sharpness, contrast) ==
    LET blur_score == Max(0, SHARPNESS_MEDIUM - sharpness)
        contrast_score == Max(0, CONTRAST_LOW - contrast)
    IN  IF is_clean /\ sharpness >= SHARPNESS_HIGH /\ contrast >= CONTRAST_HIGH
        THEN EngineConfig("gray", IF layout = "single" THEN 3 ELSE 4, 10, 1)
        ELSE IF blur_score > contrast_score /\ sharpness < SHARPNESS_MEDIUM
             THEN EngineConfig("adaptive", 6,
                               IF sharpness < ScaleStepLow THEN 15
                               ELSE IF sharpness < ScaleStepMid THEN 13
                               ELSE 12,
                               3)
             ELSE IF contrast < CONTRAST_MEDIUM
                  THEN EngineConfig("otsu",
                                    IF layout # "single" THEN 11 ELSE 3,
                                    12, 2)
                  ELSE EngineConfig("gray",
                                    IF layout = "single" THEN 3 ELSE 4,
                                    10, 2)

DecideOtsuBeforeAdaptive(layout, is_clean, sharpness, contrast) ==
    IF is_clean /\ sharpness >= SHARPNESS_HIGH /\ contrast >= CONTRAST_HIGH
    THEN EngineConfig("gray", IF layout = "single" THEN 3 ELSE 4, 10, 1)
    ELSE IF contrast < CONTRAST_MEDIUM
         THEN EngineConfig("otsu", IF layout # "single" THEN 11 ELSE 3, 12, 2)
         ELSE EngineConfig("gray", IF layout = "single" THEN 3 ELSE 4, 10, 2)

\* The body of decide once sharpness and contrast are floats.  blur_score
\* is in hundredths of a sharpness unit and contrast_score in hundredths
\* of a contrast unit, which are the same scale.
DecideOnFloats(layout, is_clean, sharpness, contrast) ==
    LET blur_score == Max(0, SHARPNESS_LOW - sharpness)
        contrast_score == Max(0, CONTRAST_LOW - contrast)
    IN  IF is_clean /\ sharpness >= SHARPNESS_HIGH /\ contrast >= CONTRAST_HIGH
        THEN EngineConfig("gray", IF layout = "single" THEN 3 ELSE 4, 10, 1)
        ELSE IF blur_score > contrast_score /\ sharpness < SHARPNESS_MEDIUM
             THEN EngineConfig("adaptive", 6,
                               IF sharpness < ScaleStepLow THEN 15
                               ELSE IF sharpness < ScaleStepMid THEN 13
                               ELSE 12,
                               3)
             ELSE IF contrast < CONTRAST_MEDIUM
                  THEN EngineConfig("otsu",
                                    IF layout # "single" THEN 11 ELSE 3,
                                    12, 2)
                  ELSE EngineConfig("gray",
                                    IF layout = "single" THEN 3 ELSE 4,
                                    10, 2)

DecideCountingCalls(layout, quality) ==
    Returns(EngineConfig("gray", 3 + Len(dec_log), 10, 2))

\* ConfigStrategy.decide: the EngineConfig, or the exception float() raises.
decide(layout, quality) ==
    LET sharpness == ToFloat(quality.sharpness)
        contrast == ToFloat(quality.contrast)
    IN  IF sharpness.raised THEN Raises(sharpness.exc)
        ELSE IF contrast.raised THEN Raises(contrast.exc)
        ELSE Returns(DecideOnFloats(layout, quality.is_clean_digital,
                                    sharpness.v, contrast.v))

DecideInputs == [layout_type : LayoutSamples, quality : QualityDicts]

\* Calls made between the calls with dec_input.
OtherDecideInputs ==
    {[layout_type |-> "single",
      quality |-> [is_clean_digital |-> TRUE, sharpness |-> Num(22000),
                   contrast |-> Num(80)]],
     [layout_type |-> "double",
      quality |-> [is_clean_digital |-> FALSE, sharpness |-> Num(4900),
                   contrast |-> Num(10)]]}

InitDecideVars ==
    /\ dec_input \in DecideInputs
    /\ dec_log = << >>

\* ConfigStrategy.decide(layout_type, quality); the call and what it gave
\* are logged.  decide assigns nothing but its locals.
Decide(input) ==
    /\ Len(dec_log) < MaxDecides
    /\ dec_log' = Append(dec_log,
                         [input |-> input,
                          out |-> decide(input.layout_type, input.quality)])
    /\ UNCHANGED dec_input
    /\ UNCHANGED otherThanDecide

DecideSame == Decide(dec_input)

DecideOther == \E input \in OtherDecideInputs : Decide(input)

NextDecide ==
    \/ DecideSame
    \/ DecideOther

InitDecide == InitDecideVars /\ IdleRun /\ IdlePage /\ IdleEngine /\ IdleLayout /\ IdleQuality /\ IdleLadder /\ IdleThreads /\ IdleRecThreads /\ IdleUserFiles /\ IdleThoth

SpecDecide == InitDecide /\ [][NextDecide]_vars

(***************************************************************************)
(* Properties of ConfigStrategy.decide (checked under SpecDecide).         *)
(***************************************************************************)
\* C13: for layout "Double", also in upper case or with surrounding
\* whitespace, and quality {is_clean_digital: false, sharpness: "invalid",
\* contrast: null}, decide does not raise and returns the adaptive
\* configuration with psm 6 and scale 1.5.
C13_MalformedQualityCoerced ==
    \A i \in 1..Len(dec_log) :
        (/\ dec_log[i].input.layout_type \in {"double", "Double", " DOUBLE "}
         /\ dec_log[i].input.quality
               = [is_clean_digital |-> FALSE, sharpness |-> InvalidString,
                  contrast |-> NoneValue])
            => /\ ~dec_log[i].out.raised
               /\ dec_log[i].out.config.pre_type = "adaptive"
               /\ dec_log[i].out.config.psm = 6
               /\ dec_log[i].out.config.scale = 15

NumericQuality(quality) ==
    quality.sharpness.kind = "num" /\ quality.contrast.kind = "num"

\* The configuration of the first matching rule of the priority list, for
\* sharpness s and contrast c in hundredths.
FirstMatchingRule(layout, is_clean, s, c) ==
    IF is_clean /\ s >= 15000 /\ c >= 55
    THEN [pre_type |-> "gray", psm |-> IF layout = "single" THEN 3 ELSE 4,
          scale |-> 10, oem |-> 1]
    ELSE IF Max(0, 5000 - s) > Max(0, 30 - c) /\ s < 9000
         THEN [pre_type |-> "adaptive", psm |-> 6,
               scale |-> IF s < 3500 THEN 15 ELSE IF s < 5000 THEN 13 ELSE 12,
               oem |-> 3]
         ELSE IF c < 45
              THEN [pre_type |-> "otsu",
                    psm |-> IF layout # "single" THEN 11 ELSE 3,
                    scale |-> 12, oem |-> 2]
              ELSE [pre_type |-> "gray",
                    psm |-> IF layout = "single" THEN 3 ELSE 4,
                    scale |-> 10, oem |-> 2]

MaxDetects == 3

\* "if w < 400 or h < 200"
TrivialWidth == 400

TrivialHeight == 200

\* Page images: the buffer's bytes, the shape (h, w) and the number of
\* dimensions (3 for BGR, 2 for grayscale).  A BGR image of 120 x 300 and a
\* grayscale image of 216 x 500, both all zero, have the same 108000 bytes.
LayoutImages ==
    {[bytes |-> "zeros108000", h |-> 120, w |-> 300, ndim |-> 3],
     [bytes |-> "zeros108000", h |-> 216, w |-> 500, ndim |-> 2],
     [bytes |-> "page", h |-> 300, w |-> 600, ndim |-> 3],
     [bytes |-> "strip", h |-> 150, w |-> 800, ndim |-> 3],
     [bytes |-> "narrow", h |-> 500, w |-> 399, ndim |-> 2]}

\* hash(image.tobytes()): the buffer decides, the shape does not.
ImgHash(image) == image.bytes

\* cv2.cvtColor(image, COLOR_BGR2GRAY) if len(image.shape) == 3 else image:
\* a two-dimensional array of the image's height and width.
ToGray(image) == [h |-> image.h, w |-> image.w]

\* The region list of a single-column answer.
FullRegion(h, w) == <<[x |-> 0, y |-> 0, w |-> w, h |-> h, col_index |-> 1]>>

\* What the projection analysis of a page that is not trivial finds: a
\* valley (here at mid width) accepted as a column gap, or none.
AnalysisOutcomes == {"valley", "none"}

\* gray as detect obtains it: from self._gray_cache when the hash is in
\* it, else converted from the image.
GrayShape(cached, image) ==
    IF ImgHash(image) \in DOMAIN cached
    THEN cached[ImgHash(image)]
    ELSE ToGray(image)

\* The dict detect returns for a gray array of shape (h, w); confidence is
\* in hundredths.
DetectResult(h, w, analysis) ==
    IF w < TrivialWidth \/ h < TrivialHeight
    THEN [layout_type |-> "single", regions |-> FullRegion(h, w),
          confidence |-> 100, method |-> "trivial"]
    ELSE IF analysis = "valley"
         THEN [layout_type |-> "double",
               regions |-> <<[x |-> 0, y |-> 0, w |-> w \div 2, h |-> h,
                              col_index |-> 1],
                             [x |-> w \div 2, y |-> 0, w |-> w - (w \div 2),
                              h |-> h, col_index |-> 2]>>,
               confidence |-> 80, method |-> "binary"]
         ELSE [layout_type |-> "single", regions |-> FullRegion(h, w),
               confidence |-> 100, method |-> "fallback"]

InitLayoutVars ==
    /\ gray_cache = << >>
    /\ lay_log = << >>

\* One call of detect(image) on the detector.
DetectLayout(image) ==
    /\ Len(lay_log) < MaxDetects
    /\ LET gray == GrayShape(gray_cache, image)
       IN  /\ gray_cache' = IF ImgHash(image) \in DOMAIN gray_cache
                            THEN gray_cache
                            ELSE (ImgHash(image) :> gray) @@ gray_cache
           /\ \E analysis \in AnalysisOutcomes :
                 lay_log' = Append(lay_log,
                     [image |-> image,
                      result |-> DetectResult(gray.h, gray.w, analysis)])
    /\ UNCHANGED otherThanLayout

NextLayout == \E image \in LayoutImages : DetectLayout(image)

InitLayout == InitLayoutVars /\ IdleRun /\ IdlePage /\ IdleEngine /\ IdleDecide /\ IdleQuality /\ IdleLadder /\ IdleThreads /\ IdleRecThreads /\ IdleUserFiles /\ IdleThoth

SpecLayout == InitLayout /\ [][NextLayout]_vars

\* C18: detect on an image with width below 400 or height below 200
\* returns layout Single, one region equal to the full image, confidence
\* 1.0 and method "trivial".
C18_SmallImageIsTrivial ==
    \A i \in 1..Len(lay_log) :
        (lay_log[i].image.w < 400 \/ lay_log[i].image.h < 200)
            => /\ lay_log[i].result.layout_type = "single"
               /\ lay_log[i].result.regions
                     = <<[x |-> 0, y |-> 0, w |-> lay_log[i].image.w,
                          h |-> lay_log[i].image.h, col_index |-> 1]>>
               /\ lay_log[i].result.confidence = 100
               /\ lay_log[i].result.method = "trivial"

\* On a detector that has seen no image with the same bytes, C18 holds.
C18_SmallImageIsTrivialOnFirstSight ==
    \A i \in 1..Len(lay_log) :
        (/\ lay_log[i].image.w < 400 \/ lay_log[i].image.h < 200
         /\ \A j \in 1..(i - 1) :
               ImgHash(lay_log[j].image) # ImgHash(lay_log[i].image))
            => /\ lay_log[i].result.layout_type = "single"
               /\ lay_log[i].result.regions
                     = FullRegion(lay_log[i].image.h, lay_log[i].image.w)
               /\ lay_log[i].result.confidence = 100
               /\ lay_log[i].result.method = "trivial"

(***************************************************************************)
(* QualityAssessor.assess.  The image is described by what OpenCV and      *)
(* NumPy report of it: the number of dimensions, the minimum and maximum   *)
(* of the grayscale array, and the variance of its Laplacian (sampled at   *)
(* whole values).  A float is kept as an exact ratio [n, d] standing for   *)
(* n * 10^6 / d, so that the 1e-6 of the denominator is one unit of d.     *)
(***************************************************************************)
MaxAssess == 2

Micro == 1000000

SharpnessThreshold == 150

\* contrast > 0.4 is contrast > ContrastThresholdNum / ContrastThresholdDen
ContrastThresholdNum == 2

ContrastThresholdDen == 5

GrayLevels == {0, 60, 127, 140, 255}

LaplacianSamples == {0, 150, 151, 300}

\* 8-bit images: min <= max within 0..255; the Laplacian of a constant
\* array is zero everywhere, so its variance is zero.
QualityImages ==
    {img \in [ndim : {2, 3}, gray_min : GrayLevels, gray_max : GrayLevels,
              laplacian_var : LaplacianSamples] :
        /\ img.gray_min <= img.gray_max
        /\ (img.gray_min = img.gray_max => img.laplacian_var = 0)}

Ratio(n, d) == [n |-> n, d |-> d]

Whole(v) == Ratio(v, Micro)

\* (max_val - min_val) / (max_val + min_val + 1e-6)
MichelsonDroppingEpsilon(min_val, max_val) ==
    IF max_val + min_val = 0
    THEN Ratio(1, 0)
    ELSE Ratio(max_val - min_val, (max_val + min_val) * Micro)

Michelson(min_val, max_val) ==
    Ratio(max_val - min_val, (max_val + min_val) * Micro + 1)

\* laplacian_var * contrast
Times(v, r) == Ratio(v * r.n, r.d)

\* r > p / q for positive p, q
RatioAbove(r, p, q) == r.n * q * Micro > p * r.d

\* laplacian_var > 150.0 and contrast > 0.4
IsCleanDigital(laplacian_var, contrast) ==
    /\ laplacian_var > SharpnessThreshold
    /\ RatioAbove(contrast, ContrastThresholdNum, ContrastThresholdDen)

assess(image) ==
    LET contrast == Michelson(image.gray_min, image.gray_max)
    IN  [sharpness |-> Whole(image.laplacian_var),
         contrast |-> contrast,
         is_clean_digital |-> IsCleanDigital(image.laplacian_var, contrast),
         quality_score |-> Times(image.laplacian_var, contrast)]

InitQualityVars == qa_log = << >>

\* One call of QualityAssessor.assess(image).
AssessQuality(image) ==
    /\ Len(qa_log) < MaxAssess
    /\ qa_log' = Append(qa_log, [image |-> image, result |-> assess(image)])
    /\ UNCHANGED otherThanQuality

NextQuality == \E image \in QualityImages : AssessQuality(image)

InitQuality ==
    InitQualityVars /\ IdleRun /\ IdlePage /\ IdleEngine /\ IdleDecide
        /\ IdleLayout /\ IdleLadder /\ IdleThreads /\ IdleRecThreads
        /\ IdleUserFiles
        /\ IdleThoth

SpecQuality == InitQuality /\ [][NextQuality]_vars

\* The ratio r has the value n * 10^6 / d; these compare it exactly.
RatioIsZero(r) == r.d > 0 /\ r.n = 0

RatioInUnitInterval(r) == r.d > 0 /\ r.n >= 0 /\ r.n * Micro <= r.d

PrimaryOutcomes == {"ok", RuntimeErrorT, ValueErrorT}

AttemptOutcomes == {"text", "empty", "error", "crash"}

AttemptPlans == [1..Len(FallbackAttempts) -> AttemptOutcomes]

NoLadderResult ==
    [text |-> "none", confidence |-> 0, psm |-> 0, oem |-> 0,
     config_used |-> "none", fallback_error |-> "none"]

InitLadderVars ==
    /\ lad_primary \in PrimaryOutcomes
    /\ lad_attempts \in AttemptPlans
    /\ lad_pc = "recognize"
    /\ lad_k = 0
    /\ lad_tried = << >>
    /\ lad_last_exception = "None"
    /\ lad_result = NoLadderResult
    /\ lad_raised = "none"

\* self.core.recognize(...) inside the try of recognize: a RuntimeError
\* enters apply_fallback_strategy, any other exception leaves recognize.
CoreCall ==
    /\ lad_pc = "recognize"
    /\ IF lad_primary = "ok"
       THEN /\ lad_pc' = "returned"
            /\ lad_result' = [NoLadderResult EXCEPT !.text = "core",
                                                    !.confidence = 90,
                                                    !.config_used = "primary"]
            /\ UNCHANGED <<lad_k, lad_raised>>
       ELSE IF EngineCatches(lad_primary)
            THEN /\ lad_pc' = "ladder"
                 /\ lad_k' = 1
                 /\ UNCHANGED <<lad_result, lad_raised>>
            ELSE /\ lad_pc' = "raised"
                 /\ lad_raised' = lad_primary
                 /\ UNCHANGED <<lad_k, lad_result>>
    /\ UNCHANGED <<lad_primary, lad_attempts, lad_tried, lad_last_exception>>
    /\ UNCHANGED otherThanLadder

\* One iteration of "for psm, oem, confidence in fallback_attempts".
LadderAttempt ==
    /\ lad_pc = "ladder"
    /\ lad_k <= Len(FallbackAttempts)
    /\ LET a == FallbackAttempts[lad_k]
           outcome == lad_attempts[lad_k]
       IN  /\ lad_tried' = Append(lad_tried, <<a.psm, a.oem>>)
           /\ IF outcome = "text"
              THEN /\ lad_pc' = "returned"
                   /\ lad_result' = [text |-> "Lacan",
                                     confidence |-> a.confidence,
                                     psm |-> a.psm, oem |-> a.oem,
                                     config_used |-> "fallback",
                                     fallback_error |-> "none"]
                   /\ UNCHANGED <<lad_k, lad_last_exception, lad_raised>>
              ELSE IF outcome = "empty"
                   THEN /\ lad_k' = lad_k + 1
                        /\ UNCHANGED <<lad_pc, lad_result,
                                       lad_last_exception, lad_raised>>
                   ELSE IF outcome = "error"
                        THEN /\ lad_k' = lad_k + 1
                             /\ lad_last_exception' = "TesseractError"
                             /\ UNCHANGED <<lad_pc, lad_result, lad_raised>>
                        ELSE /\ lad_pc' = "raised"
                             /\ lad_raised' = OSErrorT
                             /\ UNCHANGED <<lad_k, lad_result,
                                            lad_last_exception>>
    /\ UNCHANGED <<lad_primary, lad_attempts>>
    /\ UNCHANGED otherThanLadder

\* The return after the loop: every attempt gave an error or empty text.
LadderExhausted ==
    /\ lad_pc = "ladder"
    /\ lad_k > Len(FallbackAttempts)
    /\ lad_pc' = "returned"
    /\ lad_result' = [text |-> "[OCR FAILED]", confidence |-> 0,
                      psm |-> 0, oem |-> 0,
                      config_used |-> "failed_all_fallbacks",
                      fallback_error |-> lad_last_exception]
    /\ UNCHANGED <<lad_primary, lad_attempts, lad_k, lad_tried,
                   lad_last_exception, lad_raised>>
    /\ UNCHANGED otherThanLadder

NextLadder == CoreCall \/ LadderAttempt \/ LadderExhausted

InitLadder ==
    InitLadderVars /\ IdleRun /\ IdlePage /\ IdleEngine /\ IdleDecide
        /\ IdleLayout /\ IdleQuality /\ IdleThreads /\ IdleRecThreads
        /\ IdleUserFiles
        /\ IdleThoth

SpecLadder == InitLadder /\ [][NextLadder]_vars

\* The ladder as the claim words it.
LadderOrder == <<<<6, 1>>, <<11, 1>>, <<3, 0>>>>

LadderConfidence == <<30, 20, 10>>

\* Attempts made so far follow the order, and each one before the last
\* gave an engine error or empty text.
TriedInOrder ==
    /\ Len(lad_tried) <= Len(LadderOrder)
    /\ \A i \in 1..Len(lad_tried) : lad_tried[i] = LadderOrder[i]
    /\ \A i \in 1..(Len(lad_tried) - 1) :
          lad_attempts[i] \in {"error", "empty"}

\* An attempt that gives an error or empty text is followed by the next.
MovesOn ==
    \A i \in 1..Len(lad_tried) :
        (lad_attempts[i] \in {"error", "empty"}
            /\ i < Len(LadderOrder)
            /\ lad_pc \in {"returned", "raised"})
        => Len(lad_tried) > i

\* A first attempt with non-empty text ends the ladder with its confidence.
StopsAtFirstText ==
    \A i \in 1..Len(lad_tried) :
        lad_attempts[i] = "text"
            => /\ Len(lad_tried) = i
               /\ lad_pc = "returned"
               /\ lad_result.text = "Lacan"
               /\ lad_result.confidence = LadderConfidence[i]

\* C20: when the primary engine call raises RuntimeError the ladder tries
\* (psm 6, oem 1), then (psm 11, oem 1), then (psm 3, oem 0) in that
\* order; an attempt that raises an engine error or returns empty text
\* moves on to the next; the ladder stops at the first attempt with
\* non-empty text, trying no later one, and the confidence returned is
\* 30, 20 or 10 according to the attempt that succeeded.
C20_LadderInOrder ==
    /\ [](/\ TriedInOrder
          /\ MovesOn
          /\ StopsAtFirstText
          /\ (lad_primary = RuntimeErrorT
                 /\ lad_pc \in {"returned", "raised"})
             => Len(lad_tried) >= 1)
    /\ [][/\ \/ lad_tried' = lad_tried
             \/ /\ Len(lad_tried) < Len(LadderOrder)
                /\ lad_tried'
                      = Append(lad_tried, LadderOrder[Len(lad_tried) + 1])
          /\ lad_pc \in {"returned", "raised"} => lad_tried' = lad_tried]_vars

\* The ladder was entered after a RuntimeError, its first attempt raised an
\* engine error, the second gave empty text and the third gave text.
C20_Witness ==
    /\ lad_primary = RuntimeErrorT
    /\ lad_pc = "returned"
    /\ lad_attempts = <<"error", "empty", "text">>
    /\ lad_tried = <<<<6, 1>>, <<11, 1>>, <<3, 0>>>>
    /\ lad_result.confidence = 10

(***************************************************************************)
(* The cache key of recognize, on inputs chosen to meet in it: the same    *)
(* buffer under two shapes, two quality hints that differ only in the      *)
(* extra flags, and two min_confidence values equal to two decimals.       *)
(* The machine is that of SpecEngine; only the arguments differ.           *)
(***************************************************************************)
KeyImages == {[bytes |-> "A", shape |-> <<2, 3>>],
              [bytes |-> "A", shape |-> <<3, 2>>]}

KeyConfigs ==
    {[psm |-> 3, quality_hint |-> "good", min_confidence |-> 0],
     [psm |-> 3, quality_hint |-> "fair", min_confidence |-> 0],
     [psm |-> 3, quality_hint |-> "good", min_confidence |-> 1],
     [psm |-> 6, quality_hint |-> "good", min_confidence |-> 0]}

NextEngineKeys ==
    \E image \in KeyImages, config \in KeyConfigs : Recognize(image, config)

SpecEngineKeys == InitEngine /\ [][NextEngineKeys]_vars

\* Call i had the image content, the effective engine configuration and
\* the min_confidence of call j.
SameRecognition(i, j) ==
    /\ call_log[i].input.image = call_log[j].input.image
    /\ OptimizedConfig(call_log[i].input.config)
          = OptimizedConfig(call_log[j].input.config)
    /\ call_log[i].input.config.min_confidence
          = call_log[j].input.config.min_confidence

\* C21: recognize returns a cached result only if an earlier call on the
\* engine had the same image bytes and shape, the same effective
\* configuration (psm, oem, timeout, extra) and the same min_confidence.
C21_HitOnlyOnIdenticalCall ==
    \A j \in 1..Len(call_log) :
        call_log[j].outcome = "hit"
            => \E i \in 1..(j - 1) :
                  /\ call_log[i].outcome # "raised"
                  /\ SameRecognition(i, j)

(***************************************************************************)
(* Further properties of recognize, checked under SpecEngine.              *)
(***************************************************************************)
\* The three kinds of result a miss returns.
PrimarySuccess(call) == call.env.core.kind = "words"

FallbackSuccess(call) ==
    /\ call.env.core.kind = RuntimeErrorT
    /\ call.result.text = FallbackText

TerminalFailure(call) ==
    /\ call.env.core.kind = RuntimeErrorT
    /\ call.result.text = FailureMarker

\* C22: every result recognize returns on a miss (primary success,
\* fallback success or the all-fallbacks-failed result) is inserted into
\* the cache while the cache holds fewer than 1000 entries, and a later
\* identical call returns that stored result, a stored failure included,
\* without calling the engine again.
C22_MissResultStored ==
    /\ [][LET call == call_log'[Len(call_log')]
              key == CacheKeyOf(call.input.image, call.input.config)
          IN  (call.outcome = "miss" /\ call.cache_len < 1000)
                  => /\ PrimarySuccess(call) \/ FallbackSuccess(call)
                                             \/ TerminalFailure(call)
                     /\ key \in DOMAIN cache'
                     /\ cache'[key] = call.result]_vars
    /\ [](\A i, j \in 1..Len(call_log) :
            (/\ i < j
             /\ call_log[i].outcome = "miss"
             /\ call_log[i].cache_len < 1000
             /\ call_log[j].input = call_log[i].input)
                => /\ call_log[j].outcome = "hit"
                   /\ call_log[j].result = call_log[i].result
                   /\ call_log[j].env = NoEnv)
    /\ [][call_log'[Len(call_log')].outcome = "hit"
             => core_calls' = core_calls]_vars

\* C22 witness: every fallback attempt failed, the failure result was
\* stored, and the identical call after it hit and returned the failure.
C22_Witness ==
    /\ Len(call_log) >= 2
    /\ call_log[1].outcome = "miss"
    /\ call_log[1].cache_len < 1000
    /\ TerminalFailure(call_log[1])
    /\ call_log[2].input = call_log[1].input
    /\ call_log[2].outcome = "hit"
    /\ call_log[2].result.text = FailureMarker
    /\ core_calls = call_log[1].cache_len + 1

(***************************************************************************)
(* Batching of run_parallel (checked under SpecRun).                       *)
(***************************************************************************)
\* The batch a page belongs to when the pages are cut, in input order,
\* into consecutive runs of batch_size pages, counted from 0.
BatchOf(i) == (i - 1) \div batch_size

Started(i) == task[i] \in {"running", "done", "collected"}

Completed(i) == task[i] \in {"done", "collected"}

\* C23: run_parallel splits the pages in input order into consecutive
\* batches of batch_size pages, the last one possibly smaller; no page of
\* a later batch starts before every page of all earlier batches has
\* completed; and at most max_workers pages are being processed at any
\* moment.
C23_BatchesInTurn ==
    /\ [](strategy = "parallel"
            => /\ Cardinality(Running) <= max_workers
               /\ \A i, j \in PageNumbers :
                     (BatchOf(i) < BatchOf(j) /\ (Started(j) \/ task[j] = "queued"))
                         => Completed(i)
               /\ \A i, j \in PageNumbers :
                     (task[i] \in {"queued", "running"}
                        /\ task[j] \in {"queued", "running"})
                         => BatchOf(i) = BatchOf(j))
    /\ [][(strategy = "parallel" /\ run_pc = "loop" /\ run_pc' = "collecting")
             => /\ batch_start % batch_size = 0
                /\ {i \in PageNumbers : task'[i] = "queued"}
                      = {i \in PageNumbers :
                            BatchOf(i) = batch_start \div batch_size}
                /\ Cardinality({i \in PageNumbers : task'[i] = "queued"})
                      <= batch_size]_vars

\* C23 witness: with batches of two and two workers, both pages of the
\* second batch are being processed at once after the first batch was
\* collected.
C23_Witness ==
    /\ strategy = "parallel"
    /\ batch_size = 2
    /\ max_workers = 2
    /\ NumPages = 4
    /\ task[1] = "collected"
    /\ task[2] = "collected"
    /\ Running = {3, 4}

(***************************************************************************)
(* Column order of PageProcessor.process (checked under SpecPage).         *)
(***************************************************************************)
\* C24: in every PageResult that process returns, whatever LayoutDetector
\* is plugged in, the columns are in strictly ascending col_index order.
C24_ColumnsAscendingByIndex ==
    pg_pc = "returned"
        => \A k \in 1..(Len(page_result.columns) - 1) :
              page_result.columns[k].col_index
                  < page_result.columns[k + 1].col_index

(***************************************************************************)
(* ColumnLayoutDetector.detect called by two pool threads on one shared    *)
(* detector, statement by statement.  The caches are the two dicts of the  *)
(* detector; each thread has its image, its local gray and its outcome.    *)
(* A thread that finishes before the other starts is a sequential call.    *)
(***************************************************************************)
DetectThreads == {1, 2}

NoDetectResult ==
    [layout_type |-> "none", regions |-> << >>, confidence |-> 0,
     method |-> "none"]

NoShape == [h |-> 0, w |-> 0]

InitThreadsVars ==
    /\ det_image \in [DetectThreads -> LayoutImages]
    /\ det_pc = [t \in DetectThreads |-> "start"]
    /\ det_gray = [t \in DetectThreads |-> NoShape]
    /\ det_out = [t \in DetectThreads |-> NoDetectResult]
    /\ det_gray_cache = << >>
    /\ det_binary_cache = << >>

\* "if img_hash in self._gray_cache": on a hit gray is read from the
\* cache, else it is converted from the image and binarized.
DetLookup(t) ==
    /\ det_pc[t] = "start"
    /\ det_gray' = [det_gray EXCEPT ![t] = GrayShape(det_gray_cache, det_image[t])]
    /\ det_pc' = [det_pc EXCEPT ![t] =
                     IF ImgHash(det_image[t]) \in DOMAIN det_gray_cache
                     THEN "read_binary" ELSE "store_gray"]
    /\ UNCHANGED <<det_image, det_out, det_gray_cache, det_binary_cache>>
    /\ UNCHANGED otherThanThreads

\* "self._binary_cache[img_hash]" of the hit branch: a KeyError when the
\* key is not there.
DetReadBinary(t) ==
    /\ det_pc[t] = "read_binary"
    /\ det_pc' = [det_pc EXCEPT ![t] =
                     IF ImgHash(det_image[t]) \in DOMAIN det_binary_cache
                     THEN "decide" ELSE "raised"]
    /\ UNCHANGED <<det_image, det_gray, det_out, det_gray_cache,
                   det_binary_cache>>
    /\ UNCHANGED otherThanThreads

\* self._gray_cache[img_hash] = gray
DetStoreGray(t) ==
    /\ det_pc[t] = "store_gray"
    /\ det_gray_cache' = (ImgHash(det_image[t]) :> det_gray[t]) @@ det_gray_cache
    /\ det_pc' = [det_pc EXCEPT ![t] = "store_binary"]
    /\ UNCHANGED <<det_image, det_gray, det_out, det_binary_cache>>
    /\ UNCHANGED otherThanThreads

\* self._binary_cache[img_hash] = binary
DetStoreBinary(t) ==
    /\ det_pc[t] = "store_binary"
    /\ det_binary_cache' =
          (ImgHash(det_image[t]) :> det_gray[t]) @@ det_binary_cache
    /\ det_pc' = [det_pc EXCEPT ![t] = "decide"]
    /\ UNCHANGED <<det_image, det_gray, det_out, det_gray_cache>>
    /\ UNCHANGED otherThanThreads

\* "h, w = gray.shape" and the three returns.
DetReturn(t) ==
    /\ det_pc[t] = "decide"
    /\ \E analysis \in AnalysisOutcomes :
          det_out' = [det_out EXCEPT ![t] =
                         DetectResult(det_gray[t].h, det_gray[t].w, analysis)]
    /\ det_pc' = [det_pc EXCEPT ![t] = "returned"]
    /\ UNCHANGED <<det_image, det_gray, det_gray_cache, det_binary_cache>>
    /\ UNCHANGED otherThanThreads

NextThreads ==
    \E t \in DetectThreads :
        \/ DetLookup(t)
        \/ DetReadBinary(t)
        \/ DetStoreGray(t)
        \/ DetStoreBinary(t)
        \/ DetReturn(t)

InitThreads ==
    InitThreadsVars /\ IdleRun /\ IdlePage /\ IdleEngine /\ IdleDecide
        /\ IdleLayout /\ IdleQuality /\ IdleLadder /\ IdleRecThreads
        /\ IdleUserFiles
        /\ IdleThoth

SpecThreads == InitThreads /\ [][NextThreads]_vars

\* C25: detect is stateless as seen by callers: the result for an image
\* depends only on that image, not on the images detected earlier on the
\* detector, and concurrent calls on one shared detector (identical pages
\* included) never fail and never return another image's dimensions
\* because of the cache.
C25_DetectStateless ==
    \A t \in DetectThreads :
        /\ det_pc[t] # "raised"
        /\ det_pc[t] = "returned"
              => \E analysis \in AnalysisOutcomes :
                    det_out[t] = DetectResult(det_image[t].h, det_image[t].w,
                                              analysis)

\* The two ways C25 fails, each on its own: a thread is failed by the
\* KeyError, and a thread returns the dimensions of the other's image.
C25_NoKeyError == \A t \in DetectThreads : det_pc[t] # "raised"

C25_OwnDimensions ==
    \A t \in DetectThreads :
        det_pc[t] = "returned"
            => \E analysis \in AnalysisOutcomes :
                  det_out[t] = DetectResult(det_image[t].h, det_image[t].w,
                                            analysis)

(***************************************************************************)
(* TesseractManagedEngine.recognize called by two pool threads on one      *)
(* shared engine, one call each, interleaved between the cache check, the  *)
(* core call, the test of len(self.cache) and the store.  The cache and    *)
(* the statistics are those of the engine.                                 *)
(***************************************************************************)
RecognizeThreads == {1, 2}

RecognizeInputs == [image : Images, config : ConfigSamples]

InitRecThreadsVars ==
    /\ rt_input \in [RecognizeThreads -> RecognizeInputs]
    /\ rt_pc = [t \in RecognizeThreads |-> "start"]
    /\ rt_result = [t \in RecognizeThreads |-> NoResult]

\* From the entry of recognize to the cache check: a hit returns the
\* stored dict, a miss is counted.
RtLookup(t) ==
    /\ rt_pc[t] = "start"
    /\ words_file' = WordsPath
    /\ LET cache_key == CacheKeyOf(rt_input[t].image, rt_input[t].config)
       IN  IF cache_key \in DOMAIN cache
           THEN /\ stats' = record_cache_hit(stats)
                /\ rt_result' = [rt_result EXCEPT ![t] = cache[cache_key]]
                /\ rt_pc' = [rt_pc EXCEPT ![t] = "returned"]
           ELSE /\ stats' = record_cache_miss(stats)
                /\ rt_pc' = [rt_pc EXCEPT ![t] = "core"]
                /\ UNCHANGED rt_result
    /\ UNCHANGED <<rt_input, cache, cache_other, core_calls, call_log>>
    /\ UNCHANGED <<runVars, pageVars, decideVars, layoutVars, qualityVars,
                   ladderVars, threadsVars, userFilesVars, thothVars>>

\* The core call with its fallback, and self.stats.update.
RtCore(t) ==
    /\ rt_pc[t] = "core"
    /\ \E env \in MissEnvironments :
          LET optimized_config == OptimizedConfig(rt_input[t].config)
              config_used == build(optimized_config.psm, optimized_config.oem,
                                   optimized_config.extra)
              out == MissOutcome(env.core, env.attempts,
                                 rt_input[t].config.min_confidence, config_used)
          IN  /\ core_calls' = core_calls + 1
              /\ IF out.raised
                 THEN /\ rt_pc' = [rt_pc EXCEPT ![t] = "raised"]
                      /\ UNCHANGED <<rt_result, stats>>
                 ELSE /\ rt_result' = [rt_result EXCEPT ![t] = out.result]
                      /\ stats' = update(stats)
                      /\ rt_pc' = [rt_pc EXCEPT ![t] = "room"]
    /\ UNCHANGED <<rt_input, cache, cache_other, words_file, call_log>>
    /\ UNCHANGED <<runVars, pageVars, decideVars, layoutVars, qualityVars,
                   ladderVars, threadsVars, userFilesVars, thothVars>>

\* "if len(self.cache) < 1000"
RtCheckRoom(t) ==
    /\ rt_pc[t] = "room"
    /\ rt_pc' = [rt_pc EXCEPT ![t] =
                    IF CacheHasRoom(CacheSize) THEN "store" ELSE "returned"]
    /\ UNCHANGED <<rt_input, rt_result>>
    /\ UNCHANGED <<engineVars, runVars, pageVars, decideVars, layoutVars,
                   qualityVars, ladderVars, threadsVars, userFilesVars,
                   thothVars>>

\* "self.cache[cache_key] = dict(result)" and the return.
RtStore(t) ==
    /\ rt_pc[t] = "store"
    /\ cache' = (CacheKeyOf(rt_input[t].image, rt_input[t].config)
                    :> rt_result[t]) @@ cache
    /\ rt_pc' = [rt_pc EXCEPT ![t] = "returned"]
    /\ UNCHANGED <<rt_input, rt_result>>
    /\ UNCHANGED <<cache_other, stats, words_file, core_calls, call_log>>
    /\ UNCHANGED <<runVars, pageVars, decideVars, layoutVars, qualityVars,
                   ladderVars, threadsVars, userFilesVars, thothVars>>

NextRecThreads ==
    \E t \in RecognizeThreads :
        \/ RtLookup(t)
        \/ RtCore(t)
        \/ RtCheckRoom(t)
        \/ RtStore(t)

InitRecThreads ==
    InitRecThreadsVars /\ InitEngineVars /\ IdleRun /\ IdlePage /\ IdleDecide
        /\ IdleLayout /\ IdleQuality /\ IdleLadder /\ IdleThreads
        /\ IdleUserFiles
        /\ IdleThoth

SpecRecThreads == InitRecThreads /\ [][NextRecThreads]_vars

\* C26: with one engine shared by concurrent workers, under every
\* interleaving of recognize calls the cache never holds more than 1000
\* entries, and an entry stored for a key is never overwritten by another
\* thread that missed on the same key.
C26_CacheSafeUnderThreads ==
    /\ [](CacheSize <= 1000)
    /\ [][\A k \in DOMAIN cache : cache'[k] = cache[k]]_vars

\* The two halves of C26, each on its own.
C26_AtMostCapacity == CacheSize <= 1000

C26_NeverOverwritten == [][\A k \in DOMAIN cache : cache'[k] = cache[k]]_vars

(***************************************************************************)
(* The counters of OCRStats (checked under SpecEngine).  The engine of     *)
(* SpecEngine has made cache_other calls before the logged ones, each a    *)
(* miss that stored its result.                                            *)
(***************************************************************************)
\* C27: every recognize call that reaches the cache check adds one to
\* exactly one of cache_hits and cache_misses, so their sum is the number
\* of such calls; total_pages grows only on a miss that returns a result,
\* never on a hit; hence total_pages <= cache_misses and the number of
\* cache entries <= cache_misses in every reachable state.
C27_CountersAgree ==
    /\ [](/\ stats.cache_hits + stats.cache_misses
                = cache_other + Len(call_log)
          /\ stats.total_pages <= stats.cache_misses
          /\ CacheSize <= stats.cache_misses)
    /\ [][LET call == call_log'[Len(call_log')]
          IN  /\ \/ /\ stats'.cache_hits = stats.cache_hits + 1
                    /\ stats'.cache_misses = stats.cache_misses
                 \/ /\ stats'.cache_hits = stats.cache_hits
                    /\ stats'.cache_misses = stats.cache_misses + 1
              /\ call.outcome = "hit"
                    <=> stats'.cache_hits = stats.cache_hits + 1
              /\ stats'.total_pages # stats.total_pages
                    => /\ call.outcome = "miss"
                       /\ stats'.total_pages = stats.total_pages + 1]_vars

\* C27 witness: a miss that raised, a miss that returned and a hit have
\* been counted: three calls, two misses, one hit, one page.
C27_Witness ==
    /\ cache_other = 0
    /\ Len(call_log) = 3
    /\ \E i \in 1..3 : call_log[i].outcome = "raised"
    /\ stats.cache_hits = 1
    /\ stats.cache_misses = 2
    /\ stats.total_pages = 1
    /\ CacheSize = 1

(***************************************************************************)
(* The adaptive branch of ConfigStrategy.decide (checked under SpecDecide).*)
(***************************************************************************)
\* C28: decide never returns the adaptive configuration with scale 1.2:
\* whenever the adaptive branch is selected sharpness is below 50, since
\* blur_score > contrast_score needs blur_score > 0; the scale of an
\* adaptive result is 1.5 or 1.3, and sharpness < 90 never decides the
\* outcome.
C28_AdaptiveNeverScale12 ==
    \A i \in 1..Len(dec_log) :
        LET call == dec_log[i]
            s == ToFloat(call.input.quality.sharpness).v
            c == ToFloat(call.input.quality.contrast).v
            clean == /\ call.input.quality.is_clean_digital
                     /\ s >= 15000
                     /\ c >= 55
        IN  ~call.out.raised
                => /\ call.out.config.pre_type = "adaptive"
                      => /\ s < 5000
                         /\ call.out.config.scale \in {15, 13}
                         /\ call.out.config.scale = (IF s < 3500 THEN 15 ELSE 13)
                   /\ (~clean /\ Max(0, 5000 - s) > Max(0, 30 - c))
                      => call.out.config.pre_type = "adaptive"

\* C28 witness: the adaptive branch was taken at scale 1.5 and at scale
\* 1.3.
C28_Witness ==
    /\ \E i \in 1..Len(dec_log) :
          dec_log[i].out.config = EngineConfig("adaptive", 6, 15, 3)
    /\ \E i \in 1..Len(dec_log) :
          dec_log[i].out.config = EngineConfig("adaptive", 6, 13, 3)

(***************************************************************************)
(* UserFilesManager (engines/user_files.py): two managers, as two engines  *)
(* or two workers create them, with model type "fast", so that only the    *)
(* user-words file is written.  Every manager writes DEFAULT_WORDS_PATH.   *)
(***************************************************************************)
MaxFileOps == 4

Managers == {1, 2}

InitUserFilesVars ==
    /\ uf_words_file = [m \in Managers |-> "none"]
    /\ uf_on_disk = {}
    /\ uf_log = << >>

\* _write_to_file(path, lines): the path, now on disk.
write_to_file(disk, path) == disk \cup {path}

\* prepare(): writes the file unless words_file is already set.
Prepare(m) ==
    /\ Len(uf_log) < MaxFileOps
    /\ IF uf_words_file[m] = "none"
       THEN /\ uf_on_disk' = write_to_file(uf_on_disk, WordsPath)
            /\ uf_words_file' = [uf_words_file EXCEPT ![m] = WordsPath]
       ELSE UNCHANGED <<uf_on_disk, uf_words_file>>
    /\ uf_log' = Append(uf_log, [op |-> "prepare", manager |-> m])
    /\ UNCHANGED otherThanUserFiles

\* cleanup(): unlinks the file it reports, if it exists, and forgets it.
Cleanup(m) ==
    /\ Len(uf_log) < MaxFileOps
    /\ uf_on_disk' = IF uf_words_file[m] # "none"
                     THEN uf_on_disk \ {uf_words_file[m]}
                     ELSE uf_on_disk
    /\ uf_words_file' = [uf_words_file EXCEPT ![m] = "none"]
    /\ uf_log' = Append(uf_log, [op |-> "cleanup", manager |-> m])
    /\ UNCHANGED otherThanUserFiles

NextUserFiles == \E m \in Managers : Prepare(m) \/ Cleanup(m)

InitUserFiles ==
    InitUserFilesVars /\ IdleRun /\ IdlePage /\ IdleEngine /\ IdleDecide
        /\ IdleLayout /\ IdleQuality /\ IdleLadder /\ IdleThreads
        /\ IdleRecThreads
        /\ IdleThoth

SpecUserFiles == InitUserFiles /\ [][NextUserFiles]_vars

\* C29: between the return of a manager's prepare() and its own cleanup()
\* the user-words file it reports in words_file exists on disk, whatever
\* prepare() and cleanup() calls other managers perform in between.
C29_ReportedFileExists ==
    \A m \in Managers :
        uf_words_file[m] # "none" => uf_words_file[m] \in uf_on_disk

(***************************************************************************)
(* ThothDecisionPolicy.evaluate (agents/Thoth, domain/policy.py) and a     *)
(* caller that evaluates a document again, with attempt_number one higher  *)
(* and whatever metrics the new OCR pass gives, after each REPROCESS.      *)
(* Confidences are whole percents.                                         *)
(***************************************************************************)
MaxAttemptNumber == 4

MIN_ACCEPTABLE_CONFIDENCE == 85

MIN_CORRECTABLE_CONFIDENCE == 70

MAX_REPROCESS_ATTEMPTS == 2

\* QualityMetrics: avg_confidence within [0, 100], poor_pages_count >= 0.
ThothMetrics == [avg_confidence : {0, 69, 70, 84, 85, 100},
                 poor_pages_count : {0, 1}]

EvaluateIgnoringAttempts(avg_conf, poor_pages, attempts) ==
    IF avg_conf >= MIN_ACCEPTABLE_CONFIDENCE /\ poor_pages = 0
    THEN "accept"
    ELSE IF avg_conf < MIN_CORRECTABLE_CONFIDENCE
         THEN "reprocess"
         ELSE IF MIN_CORRECTABLE_CONFIDENCE <= avg_conf
                    /\ avg_conf < MIN_ACCEPTABLE_CONFIDENCE
              THEN "correct"
              ELSE "escalate"

\* ThothDecisionPolicy.evaluate: the action of the decision.
evaluate(avg_conf, poor_pages, attempts) ==
    IF avg_conf >= MIN_ACCEPTABLE_CONFIDENCE /\ poor_pages = 0
    THEN "accept"
    ELSE IF avg_conf < MIN_CORRECTABLE_CONFIDENCE
               /\ attempts < MAX_REPROCESS_ATTEMPTS
         THEN "reprocess"
         ELSE IF MIN_CORRECTABLE_CONFIDENCE <= avg_conf
                    /\ avg_conf < MIN_ACCEPTABLE_CONFIDENCE
              THEN "correct"
              ELSE "escalate"

InitThothVars ==
    /\ th_attempt \in 0..(MaxAttemptNumber - 1)
    /\ th_metrics \in ThothMetrics
    /\ th_decisions = << >>
    /\ th_pc = "evaluate"

\* evaluate(context) on the current metrics and attempt number.
EvaluateContext ==
    /\ th_pc = "evaluate"
    /\ LET action == evaluate(th_metrics.avg_confidence,
                              th_metrics.poor_pages_count, th_attempt)
       IN  /\ th_decisions' = Append(th_decisions,
                                 [action |-> action, metrics |-> th_metrics,
                                  attempt_number |-> th_attempt])
           /\ th_pc' = IF action = "reprocess" THEN "reprocess" ELSE "done"
    /\ UNCHANGED <<th_attempt, th_metrics>>
    /\ UNCHANGED otherThanThoth

\* The caller processes the document again after a REPROCESS decision.
ReprocessDocument ==
    /\ th_pc = "reprocess"
    /\ th_attempt < MaxAttemptNumber
    /\ th_attempt' = th_attempt + 1
    /\ th_metrics' \in ThothMetrics
    /\ th_pc' = "evaluate"
    /\ UNCHANGED th_decisions
    /\ UNCHANGED otherThanThoth

NextThoth == EvaluateContext \/ ReprocessDocument

InitThoth ==
    InitThothVars /\ IdleRun /\ IdlePage /\ IdleEngine /\ IdleDecide
        /\ IdleLayout /\ IdleQuality /\ IdleLadder /\ IdleThreads
        /\ IdleRecThreads /\ IdleUserFiles

\* The caller keeps going: it evaluates, and reprocesses when told to.
SpecThoth == InitThoth /\ [][NextThoth]_vars /\ WF_vars(NextThoth)

ReprocessCount ==
    Cardinality({i \in 1..Len(th_decisions) :
                    th_decisions[i].action = "reprocess"})

\* C30: evaluate returns REPROCESS only when avg_confidence < 70 and
\* attempt_number < 2; a caller that evaluates again with attempt_number
\* one higher after each REPROCESS obtains at most 2 REPROCESS decisions
\* and then a decision that is ACCEPT, CORRECT or ESCALATE, so the
\* reprocess loop terminates.
C30_ReprocessLoopTerminates ==
    /\ [](/\ \A i \in 1..Len(th_decisions) :
                th_decisions[i].action = "reprocess"
                    => /\ th_decisions[i].metrics.avg_confidence < 70
                       /\ th_decisions[i].attempt_number < 2
          /\ ReprocessCount <= 2
          /\ th_pc = "done"
                => th_decisions[Len(th_decisions)].action
                      \in {"accept", "correct", "escalate"})
    /\ <>(th_pc = "done")

\* C30 witness: starting at attempt 0 with low confidence, the caller was
\* told to reprocess twice and then, confidence still low, to escalate.
C30_Witness ==
    /\ th_pc = "done"
    /\ Len(th_decisions) = 3
    /\ th_decisions[1].action = "reprocess"
    /\ th_decisions[2].action = "reprocess"
    /\ th_decisions[3].action = "escalate"
    /\ th_decisions[3].metrics.avg_confidence = 69
    /\ th_decisions[3].attempt_number = 2

====
